---- MODULE Spec2Model ----
(***************************************************************************)
(* Incremental execution and caching engine of PyMD.                       *)
(*                                                                         *)
(* Two objects are modelled:                                               *)
(*   - pymd/code_executor.py : CodeExecutor (variables, code_cache,        *)
(*     execution_stats)                                                    *)
(*   - pymd/renderer.py      : PyMDRenderer (its own variables, code_cache,*)
(*     elements, last_full_content_hash)                                   *)
(*                                                                         *)
(* Python values are tagged pairs <<tag, n>>.  hashlib.md5 is modelled as  *)
(* an injective function of its input, so a cache key is the text that is  *)
(* hashed.  A Python dict is a sequence of <<key, value>> entries in       *)
(* insertion order, which is the order dict.keys() iterates in.            *)
(***************************************************************************)
EXTENDS Integers, Sequences, FiniteSets, TLC

(***************************************************************************)
(* Bounds of the model.                                                    *)
(***************************************************************************)
\* CodeExecutor.max_cache_size / PyMDRenderer.max_cache_size, scaled down
\* from 100 so that a trim happens within the explored depth.
MaxCacheSize == 3

\* Number of execute_code calls explored on one CodeExecutor.
MaxExecs == MaxCacheSize + 2

\* Largest wall-clock duration (in clock ticks) of one evaluation.
MaxExecTime == 1

(***************************************************************************)
(* Python values.                                                          *)
(***************************************************************************)
IntV(n) == <<"int", n>>
\* the str whose text is the decimal numeral n
StrV(n) == <<"str", n>>
\* an object whose __str__ raises; n distinguishes its states
ObjV(n) == <<"obj", n>>
\* an object with the default __str__ and __repr__, which show its type and
\* address but not its state n
MutV(n) == <<"mut", n>>
\* a host-supplied helper object (the PyMD instance, a module, a function)
HelperV(n) == <<"helper", n>>

\* str(value) in _get_variable_snapshot: succeeds or raises
StrRaises(v) == v[1] = "obj"

\* repr(value), the text str() of a list shows for each element: the numeral
\* of an int, the quoted text of a str, '<T object at 0x...>' for an object
Repr(v) == IF v[1] = "mut" THEN <<"repr", "mut", 0>> ELSE <<"repr", v[1], v[2]>>

\* A dict from names to values is a function on AllNames; a name that is not a
\* key of the dict maps to Unbound.
Unbound == <<"unbound", 0>>

(***************************************************************************)
(* Names.  Python orders str by code point: '_' < 'i' < 'p' < 'x' < 'y'.   *)
(***************************************************************************)
NameOrder == <<"__t", "input", "pd", "plt", "pymd", "x", "y">>

Names == {NameOrder[i] : i \in 1..Len(NameOrder)}

\* k.startswith('__')
StartsWithDunder(k) == k \in {"__t", "__builtins__"}

AllNames == Names \cup {"__builtins__"}

\* the empty dict
EmptyDict == [n \in AllNames |-> Unbound]

\* d.keys()
Keys(d) == {n \in AllNames : d[n] # Unbound}

\* {name: value}
Bind(name, value) == [n \in AllNames |-> IF n = name THEN value ELSE Unbound]

\* dict.update(other) / {**d, **other}: bindings of other win
DictUpdate(d, other) == [n \in AllNames |-> IF other[n] # Unbound THEN other[n] ELSE d[n]]

\* {k: v for k, v in d.items() if k in S}
DictRestrict(d, S) == [n \in AllNames |-> IF n \in S THEN d[n] ELSE Unbound]

(***************************************************************************)
(* Block texts.  A block is its Python source; Lines is code.split('\n').  *)
(***************************************************************************)
Lines(code) ==
    CASE code = "x = 5"                    -> <<"x = 5">>
      [] code = "y = x + 1"                -> <<"y = x + 1">>
      [] code = "print(1)"                 -> <<"print(1)">>
      [] code = "print(x)"                 -> <<"print(x)">>
      [] code = "1/0"                      -> <<"1/0">>
      [] code = "y = 0; print(1); 1/0"     -> <<"y = 0; print(1); 1/0">>
      [] code = "raise SystemExit"         -> <<"raise SystemExit">>
      [] code = "input = 3"                -> <<"input = 3">>
      [] code = "__t = 1"                  -> <<"__t = 1">>
      [] code = "pymd = 1"                 -> <<"pymd = 1">>
      [] code = "y = input()  # input: 2"  -> <<"y = input()  # input: 2">>
      [] code = "y = input()"              -> <<"y = input()">>
      [] code = "x = input()  # input: 1\ny = input()  # input: 2" ->
            <<"x = input()  # input: 1", "y = input()  # input: 2">>
      [] code = "x = input()\ny = input()  # input: 2" ->
            <<"x = input()", "y = input()  # input: 2">>
      [] code = "if 0: x = input()  # input: 1\ny = input()  # input: 2" ->
            <<"if 0: x = input()  # input: 1", "y = input()  # input: 2">>
      [] OTHER                             -> <<code>>

\* 'input(' in line
HasInputCall(line) ==
    line \in {"y = input()  # input: 2", "y = input()",
              "x = input()  # input: 1", "x = input()",
              "if 0: x = input()  # input: 1",
              "x = input(); y = input()  # input: 1",
              "for i in range(2): y = input()  # input: 2"}

\* '# input:' in line
HasInputComment(line) ==
    line \in {"y = input()  # input: 2", "x = input()  # input: 1",
              "if 0: x = input()  # input: 1",
              "x = input(); y = input()  # input: 1",
              "for i in range(2): y = input()  # input: 2"}

\* line.split('# input:')[1].strip()
InputComment(line) ==
    CASE line \in {"y = input()  # input: 2",
                   "for i in range(2): y = input()  # input: 2"} -> StrV(2)
      [] line \in {"x = input()  # input: 1", "if 0: x = input()  # input: 1",
                   "x = input(); y = input()  # input: 1"} -> StrV(1)
      [] OTHER -> StrV(0)

\* the empty str ''
EmptyStr == <<"str", -1>>

RECURSIVE ParseMocksFrom(_, _, _)
ParseMocksFrom(lines, i, input_mocks) ==
    IF i > Len(lines) THEN input_mocks
    ELSE IF HasInputCall(lines[i]) /\ HasInputComment(lines[i])
         THEN ParseMocksFrom(lines, i + 1, Append(input_mocks, InputComment(lines[i])))
         ELSE IF HasInputCall(lines[i]) /\ ~HasInputComment(lines[i])
              THEN ParseMocksFrom(lines, i + 1, Append(input_mocks, EmptyStr))
              ELSE ParseMocksFrom(lines, i + 1, input_mocks)

\* a parser that registers answers for annotated lines only
ParseInputMocks_AnnotatedOnly(code) ==
    LET annotated == SelectSeq(Lines(code),
                               LAMBDA l : HasInputCall(l) /\ HasInputComment(l))
    IN  [i \in 1..Len(annotated) |-> InputComment(annotated[i])]

\* _parse_input_mocks: the dict {0: v0, 1: v1, ...} is the sequence of its values
ParseInputMocks(code) == ParseMocksFrom(Lines(code), 1, <<>>)

\* 'input(' in code
CodeHasInputCall(code) == \E i \in 1..Len(Lines(code)) : HasInputCall(Lines(code)[i])

\* the loop at execute_code 268-273: some line has 'input(' and no '# input:'
InputLineFound(code) ==
    \E i \in 1..Len(Lines(code)) :
        HasInputCall(Lines(code)[i]) /\ ~HasInputComment(Lines(code)[i])


(***************************************************************************)
(* Evaluation of a block by exec(code, exec_globals).                      *)
(* The outcome is the kind of exception raised ("none", "Exception" for a  *)
(* subclass of Exception, "BaseException" for SystemExit and the like),    *)
(* the globals dict as the block left it, and the text written to stdout.  *)
(***************************************************************************)
\* the mock_input closure bound to 'input' in exec_globals
MockInputV == <<"mock", 0>>

\* what print(v) writes: str(v), the same text for 2 and '2'
StrOf(v) == IF v[1] \in {"int", "str"} THEN <<"text", v[2]>> ELSE <<"object-text", 0>>

Outcome(raised, g, output, error) ==
    [raised |-> raised, globals |-> g, output |-> output, error |-> error]

\* name = input(): the first call of mock_input returns mock_values[0]
PyInputCall(target, g, mock_values) ==
    IF g["input"] = MockInputV
    THEN IF Len(mock_values) >= 1
         THEN Outcome("none", DictUpdate(g, Bind(target, mock_values[1])), <<>>, "")
         ELSE Outcome("Exception", g, <<>>, "IndexError")
    ELSE IF g["input"] # Unbound
         THEN Outcome("Exception", g, <<>>, "TypeError")
         ELSE Outcome("Exception", g, <<>>, "EOFError")

\* the names assigned from input(), in the order the calls run
InputCalls(code) ==
    CASE code = "y = input()  # input: 2" -> <<"y">>
      [] code = "y = input()" -> <<"y">>
      [] code = "x = input()  # input: 1\ny = input()  # input: 2" -> <<"x", "y">>
      [] code = "x = input()\ny = input()  # input: 2" -> <<"x", "y">>
      [] code = "if 0: x = input()  # input: 1\ny = input()  # input: 2" -> <<"y">>
      [] code = "x = input(); y = input()  # input: 1" -> <<"x", "y">>
      [] code = "for i in range(2): y = input()  # input: 2" -> <<"y", "y">>
      [] OTHER -> <<>>

\* a mock that starts over when its answers run out
MockInput_Reuses(mock_values, call_count) ==
    IF Len(mock_values) = 0
    THEN [raised |-> TRUE, value |-> EmptyStr]
    ELSE [raised |-> FALSE, value |-> mock_values[(call_count % Len(mock_values)) + 1]]

\* mock_input (192-196): value = mock_values[call_count[0]], an IndexError
\* when call_count[0] is past the end; the caller then adds one to call_count[0]
MockInput(mock_values, call_count) ==
    IF call_count < Len(mock_values)
    THEN [raised |-> FALSE, value |-> mock_values[call_count + 1]]
    ELSE [raised |-> TRUE, value |-> EmptyStr]

\* the input() calls of a block, run one after the other
RECURSIVE PyInputCalls(_, _, _, _)
PyInputCalls(targets, g, mock_values, call_count) ==
    IF targets = <<>> THEN Outcome("none", g, <<>>, "")
    ELSE IF g["input"] # MockInputV
         THEN Outcome("Exception", g, <<>>,
                      IF g["input"] # Unbound THEN "TypeError" ELSE "EOFError")
         ELSE LET m == MockInput(mock_values, call_count)
              IN  IF m.raised
                  THEN Outcome("Exception", g, <<>>, "IndexError")
                  ELSE PyInputCalls(Tail(targets),
                                    DictUpdate(g, Bind(Head(targets), m.value)),
                                    mock_values, call_count + 1)

PyExec(code, g, mock_values) ==
    CASE code = "x = 5" -> Outcome("none", DictUpdate(g, Bind("x", IntV(5))), <<>>, "")
      [] code = "y = x + 1" ->
            IF g["x"] = Unbound THEN Outcome("Exception", g, <<>>, "NameError")
            ELSE IF g["x"][1] = "int"
                 THEN Outcome("none", DictUpdate(g, Bind("y", IntV(g["x"][2] + 1))), <<>>, "")
                 ELSE Outcome("Exception", g, <<>>, "TypeError")
      [] code = "print(1)" -> Outcome("none", g, <<StrOf(IntV(1))>>, "")
      [] code = "print(x)" ->
            IF g["x"] = Unbound THEN Outcome("Exception", g, <<>>, "NameError")
            ELSE IF StrRaises(g["x"]) THEN Outcome("Exception", g, <<>>, "ValueError")
                 ELSE Outcome("none", g, <<StrOf(g["x"])>>, "")
      [] code = "1/0" -> Outcome("Exception", g, <<>>, "ZeroDivisionError")
      [] code = "y = 0; print(1); 1/0" ->
            Outcome("Exception", DictUpdate(g, Bind("y", IntV(0))), <<StrOf(IntV(1))>>,
                    "ZeroDivisionError")
      [] code = "raise SystemExit" -> Outcome("BaseException", g, <<>>, "SystemExit")
      [] code = "input = 3" -> Outcome("none", DictUpdate(g, Bind("input", IntV(3))), <<>>, "")
      [] code = "__t = 1" -> Outcome("none", DictUpdate(g, Bind("__t", IntV(1))), <<>>, "")
      [] code = "pymd = 1" -> Outcome("none", DictUpdate(g, Bind("pymd", IntV(1))), <<>>, "")
      [] code = "y = input()  # input: 2" -> PyInputCall("y", g, mock_values)
      [] code = "y = input()" -> PyInputCall("y", g, mock_values)
      [] code = "__import__('sys').stdout = None" -> Outcome("none", g, <<>>, "")
      [] code = "del x" ->
            IF g["x"] = Unbound THEN Outcome("Exception", g, <<>>, "NameError")
            ELSE Outcome("none", [g EXCEPT !["x"] = Unbound], <<>>, "")
      [] code = "pymd.h1('T')" ->
            IF g["pymd"] = Unbound THEN Outcome("Exception", g, <<>>, "NameError")
            ELSE IF g["pymd"][1] = "helper" THEN Outcome("none", g, <<>>, "")
                 ELSE Outcome("Exception", g, <<>>, "AttributeError")
      [] code \in {"x = input()  # input: 1\ny = input()  # input: 2",
                   "x = input()\ny = input()  # input: 2",
                   "if 0: x = input()  # input: 1\ny = input()  # input: 2",
                   "x = input(); y = input()  # input: 1",
                   "for i in range(2): y = input()  # input: 2"} ->
            PyInputCalls(InputCalls(code), g, mock_values, 0)
      [] OTHER -> Outcome("Exception", g, <<>>, "SyntaxError")

(***************************************************************************)
(* dict as an insertion-ordered sequence of entries.                       *)
(***************************************************************************)
DictHas(d, k) == \E i \in 1..Len(d) : d[i].key = k

DictGet(d, k) == d[CHOOSE i \in 1..Len(d) : d[i].key = k].value

\* d[k] = v: an existing key keeps its position, a new key goes last
DictSet(d, k, v) ==
    IF DictHas(d, k)
    THEN [i \in 1..Len(d) |-> IF d[i].key = k THEN [key |-> k, value |-> v] ELSE d[i]]
    ELSE Append(d, [key |-> k, value |-> v])

\* list(d.keys())
DictKeys(d) == [i \in 1..Len(d) |-> d[i].key]

(***************************************************************************)
(* CodeExecutor: snapshot, key, eviction.                                  *)
(***************************************************************************)
\* _get_variable_snapshot: the bindings whose str() does not raise
GetVariableSnapshot(vars) ==
    DictRestrict(vars, {n \in Keys(vars) : ~StrRaises(vars[n])})

\* str(sorted(variables_snapshot.items())): the (name, repr(value)) pairs by name
RECURSIVE SortedItemsFrom(_, _)
SortedItemsFrom(snapshot, i) ==
    IF i > Len(NameOrder) THEN <<>>
    ELSE IF snapshot[NameOrder[i]] # Unbound
         THEN <<  <<NameOrder[i], Repr(snapshot[NameOrder[i]])>>  >>
              \o SortedItemsFrom(snapshot, i + 1)
         ELSE SortedItemsFrom(snapshot, i + 1)

SortedItems(snapshot) == SortedItemsFrom(snapshot, 1)

\* a key built from the block text alone
GetCodeHash_TextOnly(code, variables_snapshot) == <<code, <<>> >>

\* _get_code_hash: md5(code + str(sorted(items))), md5 taken as injective
GetCodeHash(code, variables_snapshot) == <<code, SortedItems(variables_snapshot)>>

\* cache_key=None
NoKey == <<"None", <<>> >>

\* a trim that removes only the entries over capacity
ManageCacheSize_TrimToCapacity(cache) ==
    IF Len(cache) > MaxCacheSize
    THEN SubSeq(cache, Len(cache) - MaxCacheSize + 1, Len(cache))
    ELSE cache

\* _manage_cache_size
ManageCacheSize(cache) ==
    IF Len(cache) > MaxCacheSize
    THEN LET items_to_remove == Len(cache) - (MaxCacheSize \div 2)
         IN  SubSeq(cache, items_to_remove + 1, Len(cache))
    ELSE cache

\* _detect_heavy_imports: the import lines naming a watched library
HeavyImports(code) ==
    SelectSeq(Lines(code), LAMBDA line : line \in {"import numpy", "import pandas"})


(***************************************************************************)
(* State.                                                                  *)
(***************************************************************************)
VARIABLES
    variables,        \* CodeExecutor.variables
    code_cache,       \* CodeExecutor.code_cache
    execution_stats,  \* CodeExecutor.execution_stats
    calls,            \* number of execute_code calls made so far
    ret,              \* the latest execute_code call: arguments and what it returned
    prevRet,          \* the execute_code call before it
    seen,             \* <<code, variables>> at the start of every earlier call
    r_variables,      \* PyMDRenderer.variables
    r_code_cache,     \* PyMDRenderer.code_cache
    elements,         \* PyMDRenderer.elements
    last_full_content_hash,  \* PyMDRenderer.last_full_content_hash
    renders,          \* number of parse_and_render calls made so far
    r_ret,            \* the latest call on the renderer: argument and outcome
    r_prev,           \* the call on the renderer before it
    block_history,    \* CodeExecutor.block_history
    variables_checkpoints,  \* CodeExecutor.variables_checkpoints
    heap,             \* the objects the bindings refer to: copy behaviour and state
    hostops,          \* number of host operations other than execute_code made so far
    h_ret,            \* the latest host operation: arguments, state before and after
    saved,            \* per index, the values bound when save_checkpoint last ran,
                      \* present until the next clear_cache
    sys_streams       \* sys.stdout and sys.stderr of the process

\* the CodeExecutor and what is observed of it
evars == <<variables, code_cache, execution_stats, calls, ret, prevRet, seen>>

\* the PyMDRenderer and what is observed of it
rvars == <<r_variables, r_code_cache, elements, last_full_content_hash, renders, r_ret,
          r_prev>>

\* the checkpoint store, the block history and what is observed of host calls
cvars == <<block_history, variables_checkpoints, heap, hostops, h_ret, saved>>

vars == <<variables, code_cache, execution_stats, calls, ret, prevRet, seen,
          r_variables, r_code_cache, elements, last_full_content_hash, renders, r_ret,
          r_prev, block_history, variables_checkpoints, heap, hostops, h_ret, saved,
          sys_streams>>

\* total_execution_time / total_executions, kept as an exact fraction
Ratio(n, d) == [num |-> n, den |-> d]

\* the execution_stats dict of __init__
InitStats ==
    [total_executions |-> 0, cache_hits |-> 0, cache_misses |-> 0,
     total_execution_time |-> 0, average_execution_time |-> Ratio(0, 1)]

\* the result dict before evaluation (execute_code 237-246)
InitResult(code, cache_key) ==
    [success |-> TRUE, output |-> <<>>, error |-> "", variables |-> EmptyDict,
     cache_key |-> cache_key, execution_time |-> 0, was_cached |-> FALSE,
     heavy_imports |-> HeavyImports(code)]

\* no call yet
NoRet ==
    [op |-> "none", index |-> -1, code |-> "", key_given |-> FALSE, custom |-> EmptyDict,
     pre |-> EmptyDict, pre_cache |-> <<>>, pre_stats |-> InitStats, fresh |-> FALSE,
     pre_streams |-> [stdout |-> "tty", stderr |-> "tty"],
     post_streams |-> [stdout |-> "tty", stderr |-> "tty"],
     input_installed |-> FALSE,
     post_stats |-> InitStats,
     post |-> EmptyDict,
     hit |-> FALSE, raised |-> FALSE, evaluated |-> FALSE,
     result |-> InitResult("", NoKey)]

(***************************************************************************)
(* CodeExecutor.execute_code                                               *)
(***************************************************************************)
\* the stats update of a cache hit (217-219)
StatsAfterHit(stats) ==
    [stats EXCEPT !.cache_hits = @ + 1, !.total_executions = @ + 1]

\* the stats update of a miss (298-304, 320-326)
StatsAfterMiss(stats, execution_time) ==
    [total_executions |-> stats.total_executions + 1,
     cache_hits |-> stats.cache_hits,
     cache_misses |-> stats.cache_misses + 1,
     total_execution_time |-> stats.total_execution_time + execution_time,
     average_execution_time |->
         Ratio(stats.total_execution_time + execution_time, stats.total_executions + 1)]

\* a hit that replaces the environment by the cached post-state
VariablesAfterHit_Replace(vars0, cached_result) == cached_result.variables

\* self.variables.update(cached_result['variables']) of a cache hit (215)
VariablesAfterHit(vars0, cached_result) == DictUpdate(vars0, cached_result.variables)

\* a hit that moves the entry to the young end, as an LRU cache would
CacheAfterHit_MoveToEnd(cache0, cache_key) ==
    Append(SelectSeq(cache0, LAMBDA e : e.key # cache_key),
           [key |-> cache_key, value |-> DictGet(cache0, cache_key)])

\* a cache hit reads code_cache and leaves it as it is (212-224)
CacheAfterHit(cache0, cache_key) == cache0

\* exec_globals as built at 253-265
ExecGlobals(vars0, custom_globals, code, input_mocks) ==
    LET g0 == DictUpdate(Bind("__builtins__", HelperV(0)), vars0)
        g1 == DictUpdate(g0, custom_globals)
    IN  IF CodeHasInputCall(code) /\ Len(input_mocks) > 0
        THEN DictUpdate(g1, Bind("input", MockInputV))
        ELSE g1

\* the RuntimeError of 275-277
MockInstallRaises(code, input_mocks) ==
    CodeHasInputCall(code) /\ Len(input_mocks) = 0 /\ InputLineFound(code)

\* updated_vars (287-288)
UpdatedVars(exec_globals) ==
    DictRestrict(exec_globals,
                 {k \in Keys(exec_globals) : ~StartsWithDunder(k) /\ k \notin {"input"}})

\* a merge that makes the block's globals the new environment
VariablesAfterSuccess_Replaces(vars0, exec_globals) == UpdatedVars(exec_globals)

\* self.variables.update(updated_vars) after exec (286-289): names the
\* block deleted from its globals are not removed from self.variables
VariablesAfterSuccess(vars0, exec_globals) ==
    DictUpdate(vars0, UpdatedVars(exec_globals))

\* an except clause that merges what the block bound before it failed
VariablesAfterFailure_Merges(vars0, exec_globals) ==
    DictUpdate(vars0, UpdatedVars(exec_globals))

\* self.variables after the except clause (310-314, renderer 468-472), which
\* never reads exec_globals
VariablesAfterFailure(vars0, exec_globals) == vars0

\* What one call does to the executor: the new variables, cache and stats,
\* whether an exception left the call, and the returned dict.
ExecuteCode(vars0, cache0, stats0, code, cache_key_arg, custom_globals, execution_time) ==
    LET cache_key == IF cache_key_arg = NoKey
                     THEN GetCodeHash(code, GetVariableSnapshot(vars0))
                     ELSE cache_key_arg
    IN  IF DictHas(cache0, cache_key)
        THEN LET cached_result == DictGet(cache0, cache_key)
             IN  [variables |-> VariablesAfterHit(vars0, cached_result),
                  code_cache |-> CacheAfterHit(cache0, cache_key),
                  execution_stats |-> StatsAfterHit(stats0),
                  hit |-> TRUE, raised |-> FALSE, evaluated |-> FALSE,
                  result |-> cached_result]
        ELSE LET input_mocks == ParseInputMocks(code)
                 exec_globals == ExecGlobals(vars0, custom_globals, code, input_mocks)
                 out == IF MockInstallRaises(code, input_mocks)
                        THEN Outcome("Exception", exec_globals, <<>>, "RuntimeError")
                        ELSE PyExec(code, exec_globals, input_mocks)
                 result0 == InitResult(code, cache_key)
             IN  CASE out.raised = "none" ->
                        LET vars1 == VariablesAfterSuccess(vars0, out.globals)
                            result == [result0 EXCEPT !.output = out.output,
                                                      !.variables = vars1,
                                                      !.execution_time = execution_time]
                        IN  [variables |-> vars1,
                             code_cache |-> ManageCacheSize(DictSet(cache0, cache_key, result)),
                             execution_stats |-> StatsAfterMiss(stats0, execution_time),
                             hit |-> FALSE, raised |-> FALSE, evaluated |-> TRUE,
                             result |-> result]
                   [] out.raised = "Exception" ->
                        LET result == [result0 EXCEPT !.success = FALSE,
                                                      !.error = out.error,
                                                      !.output = out.output,
                                                      !.variables =
                                                          VariablesAfterFailure(vars0, out.globals),
                                                      !.execution_time = execution_time]
                        IN  [variables |-> VariablesAfterFailure(vars0, out.globals),
                             code_cache |-> ManageCacheSize(DictSet(cache0, cache_key, result)),
                             execution_stats |-> StatsAfterMiss(stats0, execution_time),
                             hit |-> FALSE, raised |-> FALSE,
                             evaluated |-> ~MockInstallRaises(code, input_mocks),
                             result |-> result]
                   [] OTHER ->
                        \* not an Exception: only the finally clause runs
                        [variables |-> vars0, code_cache |-> cache0,
                         execution_stats |-> stats0,
                         hit |-> FALSE, raised |-> TRUE, evaluated |-> TRUE,
                         result |-> result0]

(***************************************************************************)
(* sys.stdout and sys.stderr.  A stream object is named by what it is: the *)
(* terminal's ("tty"), one the host installed ("host"), the StringIO of    *)
(* the running call ("capture"), or None.                                  *)
(***************************************************************************)
Streams(out, err) == [stdout |-> out, stderr |-> err]

\* what evaluating the block does to sys.stdout and sys.stderr
PyExecStreams(code, streams) ==
    IF code = "__import__('sys').stdout = None"
    THEN [streams EXCEPT !.stdout = "None"]
    ELSE streams

\* the kind of exception that ended the evaluation of a call
RaisedKind(hit, raised, success) ==
    IF hit THEN "none"
    ELSE IF raised THEN "BaseException"
         ELSE IF ~success THEN "Exception" ELSE "none"

\* a release that runs only when the evaluation raised nothing
RestoreStreams_OnSuccessOnly(old, current, raised) ==
    IF raised = "none" THEN old ELSE current

\* the finally clause (332-334): runs on every exit from the try statement
RestoreStreams(old, current, raised) == old

\* sys.stdout and sys.stderr along one call of execute_code
\* (226-228 save, 279-281 redirect, 284 exec, 332-334 restore)
StreamsAfterExecute(streams0, code, hit, raised) ==
    IF hit THEN streams0
    ELSE LET old == streams0
             install_raises == MockInstallRaises(code, ParseInputMocks(code))
             current == IF install_raises
                        THEN streams0
                        ELSE PyExecStreams(code, Streams("capture", "capture"))
         IN  RestoreStreams(old, current, raised)

\* the names and repr texts of the bindings of e whose str() succeeds
SnapshotText(e) == {<<n, Repr(e[n])>> : n \in {m \in Keys(e) : e[m][1] # "obj"}}

\* One call of execute_code.  block_index is the document position of the
\* block, which the caller knows and execute_code has no parameter for; -1
\* when the caller executes a text that is not a block of a document.
ExecuteAt(block_index, code, cache_key_arg, custom_globals, execution_time) ==
    LET r == ExecuteCode(variables, code_cache, execution_stats,
                         code, cache_key_arg, custom_globals, execution_time)
    IN  /\ variables' = r.variables
        /\ code_cache' = r.code_cache
        /\ execution_stats' = r.execution_stats
        /\ calls' = calls + 1
        /\ ret' = [op |-> "execute", index |-> block_index, code |-> code,
                   key_given |-> (cache_key_arg # NoKey), custom |-> custom_globals,
                   pre |-> variables, pre_cache |-> code_cache,
                   pre_stats |-> execution_stats,
                   fresh |-> ~\E s \in seen :
                                 /\ s[1] = code
                                 /\ SnapshotText(s[2]) = SnapshotText(variables),
                   pre_streams |-> sys_streams,
                   post_streams |-> StreamsAfterExecute(sys_streams, code, r.hit,
                                        RaisedKind(r.hit, r.raised, r.result.success)),
                   post_stats |-> r.execution_stats,
                   input_installed |->
                       /\ ~r.hit
                       /\ ~MockInstallRaises(code, ParseInputMocks(code))
                       /\ ExecGlobals(variables, custom_globals, code,
                                      ParseInputMocks(code))["input"] = MockInputV,
                   post |-> r.variables,
                   hit |-> r.hit, raised |-> r.raised, evaluated |-> r.evaluated,
                   result |-> r.result]
        /\ prevRet' = ret
        /\ seen' = seen \cup {<<code, variables>>}
        /\ sys_streams' = StreamsAfterExecute(sys_streams, code, r.hit,
                                RaisedKind(r.hit, r.raised, r.result.success))
        /\ UNCHANGED <<rvars, cvars>>

Execute(code, cache_key_arg, custom_globals, execution_time) ==
    ExecuteAt(-1, code, cache_key_arg, custom_globals, execution_time)

\* the host assigns executor.variables[name] = value between calls
SetVariable(name, value) ==
    /\ variables[name] # value
    /\ variables' = DictUpdate(variables, Bind(name, value))
    /\ UNCHANGED <<code_cache, execution_stats, calls, ret, prevRet, seen>>
    /\ UNCHANGED <<rvars, cvars, sys_streams>>

(***************************************************************************)
(* Objects.  A binding may refer to an object that lives on the heap: the  *)
(* value RefV(id) is the reference, heap[id] is the object, with what      *)
(* copy.deepcopy does with it and the state a method call can change:      *)
(*   "deep"   - deepcopy builds an independent copy (a list, an instance)  *)
(*   "raises" - deepcopy raises (a generator, a lock, an open file)        *)
(***************************************************************************)
RefV(id) == <<"ref", id>>

IsRef(v) == v[1] = "ref"

\* copy.deepcopy(value): the copy, the heap with the copy in it, or raised
DeepCopy_Alias(value, heap0) == [value |-> value, heap |-> heap0, raised |-> FALSE]

DeepCopy(value, heap0) ==
    IF ~IsRef(value)
    THEN [value |-> value, heap |-> heap0, raised |-> FALSE]
    ELSE IF heap0[value[2]].kind = "deep"
         THEN [value |-> RefV(Len(heap0) + 1),
               heap |-> Append(heap0, heap0[value[2]]),
               raised |-> FALSE]
         ELSE [value |-> value, heap |-> heap0, raised |-> TRUE]

\* the loop shared by _deep_copy_variables (55-60) and restore_variables
\* (67-71): try target[key] = copy.deepcopy(value), except target[key] = value
RECURSIVE CopyVariablesFrom(_, _, _, _)
CopyVariablesFrom(source, i, target, heap0) ==
    IF i > Len(NameOrder) THEN [variables |-> target, heap |-> heap0]
    ELSE LET key == NameOrder[i]
         IN  IF source[key] = Unbound
             THEN CopyVariablesFrom(source, i + 1, target, heap0)
             ELSE LET c == DeepCopy(source[key], heap0)
                      value == IF c.raised THEN source[key] ELSE c.value
                  IN  CopyVariablesFrom(source, i + 1,
                                        DictUpdate(target, Bind(key, value)), c.heap)

\* _deep_copy_variables
DeepCopyVariables(vars0, heap0) == CopyVariablesFrom(vars0, 1, EmptyDict, heap0)

\* restore_variables: self.variables.clear(), then repopulate
RestoreVariables(checkpoint, heap0) == CopyVariablesFrom(checkpoint, 1, EmptyDict, heap0)

\* the block positions a host uses
BlockIndexes == {0, 1}

\* an index that is not a key of variables_checkpoints
NoCheckpoint == [present |-> FALSE, variables |-> EmptyDict]

\* variables_checkpoints = {}
NoCheckpoints == [i \in BlockIndexes |-> NoCheckpoint]

\* get_block_code_hash: md5 of the text, taken as injective
GetBlockCodeHash(code) == <<"md5", code>>

\* a None entry of block_history
NoBlock == [index |-> -1, code_hash |-> <<"None", "">>]

\* update_block_history: pad with None up to block_index, then assign
UpdatedBlockHistory(history, block_index, code) ==
    LET n == IF Len(history) <= block_index THEN block_index + 1 ELSE Len(history)
        padded == [i \in 1..n |-> IF i <= Len(history) THEN history[i] ELSE NoBlock]
    IN  [padded EXCEPT ![block_index + 1] =
             [index |-> block_index, code_hash |-> GetBlockCodeHash(code)]]

\* the loop of find_first_changed_block (114-125) from position i on;
\* code_blocks holds the block texts in document order (the block_index half
\* of each tuple is never read)
RECURSIVE CompareBlocks(_, _, _)
CompareBlocks(code_blocks, history, i) ==
    IF i >= Len(code_blocks) THEN -1
    ELSE IF i >= Len(history) \/ history[i + 1] = NoBlock THEN i
    ELSE IF GetBlockCodeHash(code_blocks[i + 1]) # history[i + 1].code_hash THEN i
    ELSE CompareBlocks(code_blocks, history, i + 1)

\* a detector that reports the new block count when the count changed
FindFirstChangedBlock_NewCount(code_blocks, history) ==
    IF Len(code_blocks) # Len(history)
    THEN Len(code_blocks)
    ELSE CompareBlocks(code_blocks, history, 0)

\* find_first_changed_block (101-127)
FindFirstChangedBlock(code_blocks, history) ==
    IF Len(code_blocks) # Len(history)
    THEN (IF Len(code_blocks) < Len(history) THEN Len(code_blocks) ELSE Len(history))
    ELSE CompareBlocks(code_blocks, history, 0)

\* restore_checkpoint (77-82)
RestoreCheckpoint_ClearsWhenAbsent(vars0, heap0, checkpoints, block_index) ==
    IF checkpoints[block_index].present
    THEN LET c == RestoreVariables(checkpoints[block_index].variables, heap0)
         IN  [variables |-> c.variables, heap |-> c.heap, returned |-> TRUE]
    ELSE [variables |-> EmptyDict, heap |-> heap0, returned |-> FALSE]

RestoreCheckpointResult(vars0, heap0, checkpoints, block_index) ==
    IF checkpoints[block_index].present
    THEN LET c == RestoreVariables(checkpoints[block_index].variables, heap0)
         IN  [variables |-> c.variables, heap |-> c.heap, returned |-> TRUE]
    ELSE [variables |-> vars0, heap |-> heap0, returned |-> FALSE]

\* a clear that keeps the stored checkpoints
ClearedExecutor_KeepsCheckpoints(vars0) ==
    [variables |-> vars0, code_cache |-> <<>>, execution_stats |-> InitStats,
     block_history |-> <<>>, variables_checkpoints |-> variables_checkpoints]

\* a clear that also empties the environment
ClearedExecutor_ClearsVariables(vars0) ==
    [variables |-> EmptyDict, code_cache |-> <<>>, execution_stats |-> InitStats,
     block_history |-> <<>>, variables_checkpoints |-> NoCheckpoints]

\* clear_cache (129-140): self.variables is not assigned
ClearedExecutor(vars0) ==
    [variables |-> vars0, code_cache |-> <<>>, execution_stats |-> InitStats,
     block_history |-> <<>>, variables_checkpoints |-> NoCheckpoints]

\* what a binding holds: an immutable value, or an object's copy behaviour and state
ValueOf(v, h) == IF IsRef(v) THEN <<"object", h[v[2]].kind, h[v[2]].state>> ELSE v

EnvValues(e, h) == [n \in AllNames |-> ValueOf(e[n], h)]

\* no host operation yet
NoHostRet ==
    [op |-> "none", index |-> -1, returned |-> "None", blocks |-> <<>>, found |-> -2,
     pre |-> EmptyDict, pre_values |-> EmptyDict, pre_cache |-> <<>>,
     pre_stats |-> InitStats, pre_history |-> <<>>, pre_checkpoints |-> NoCheckpoints,
     pre_heap |-> <<>>, saved |-> NoCheckpoint,
     post |-> EmptyDict, post_values |-> EmptyDict, post_cache |-> <<>>,
     post_stats |-> InitStats, post_history |-> <<>>, post_checkpoints |-> NoCheckpoints,
     post_heap |-> <<>>]

\* a host operation on the executor: the fields it leaves and what it returns
HostCall(op, block_index, returned, vars1, heap1, cache1, stats1, history1, checkpoints1) ==
    /\ variables' = vars1
    /\ heap' = heap1
    /\ code_cache' = cache1
    /\ execution_stats' = stats1
    /\ block_history' = history1
    /\ variables_checkpoints' = checkpoints1
    /\ hostops' = hostops + 1
    /\ h_ret' = [op |-> op, index |-> block_index, returned |-> returned,
                 blocks |-> <<>>, found |-> -2,
                 pre |-> variables, pre_values |-> EnvValues(variables, heap),
                 pre_cache |-> code_cache, pre_stats |-> execution_stats,
                 pre_history |-> block_history,
                 pre_checkpoints |-> variables_checkpoints, pre_heap |-> heap,
                 saved |-> IF block_index \in BlockIndexes
                           THEN saved[block_index] ELSE NoCheckpoint,
                 post |-> vars1, post_values |-> EnvValues(vars1, heap1),
                 post_cache |-> cache1, post_stats |-> stats1,
                 post_history |-> history1, post_checkpoints |-> checkpoints1,
                 post_heap |-> heap1]
    /\ UNCHANGED <<calls, ret, prevRet, seen, rvars, sys_streams>>

\* save_checkpoint (73-75)
SaveCheckpoint(block_index) ==
    LET c == DeepCopyVariables(variables, heap)
    IN  /\ HostCall("save", block_index, "None", variables, c.heap, code_cache,
                    execution_stats, block_history,
                    [variables_checkpoints EXCEPT
                        ![block_index] = [present |-> TRUE, variables |-> c.variables]])
        /\ saved' = [saved EXCEPT ![block_index] =
                        [present |-> TRUE, variables |-> EnvValues(variables, heap)]]

\* restore_checkpoint (77-82)
RestoreCheckpoint(block_index) ==
    LET r == RestoreCheckpointResult(variables, heap, variables_checkpoints, block_index)
    IN  /\ HostCall("restore", block_index, IF r.returned THEN "True" ELSE "False",
                    r.variables, r.heap, code_cache, execution_stats, block_history,
                    variables_checkpoints)
        /\ UNCHANGED saved

\* update_block_history (88-99)
UpdateBlockHistory(block_index, code) ==
    /\ HostCall("update_block_history", block_index, "None", variables, heap, code_cache,
                execution_stats, UpdatedBlockHistory(block_history, block_index, code),
                variables_checkpoints)
    /\ UNCHANGED saved

\* a call of find_first_changed_block: it reads block_history and returns
FindFirstChanged(code_blocks) ==
    /\ h_ret' = [NoHostRet EXCEPT
                    !.op = "find_first_changed_block",
                    !.blocks = code_blocks,
                    !.found = FindFirstChangedBlock(code_blocks, block_history),
                    !.pre = variables, !.post = variables,
                    !.pre_values = EnvValues(variables, heap),
                    !.post_values = EnvValues(variables, heap),
                    !.pre_cache = code_cache, !.post_cache = code_cache,
                    !.pre_stats = execution_stats, !.post_stats = execution_stats,
                    !.pre_history = block_history, !.post_history = block_history,
                    !.pre_checkpoints = variables_checkpoints,
                    !.post_checkpoints = variables_checkpoints,
                    !.pre_heap = heap, !.post_heap = heap]
    /\ hostops' = hostops + 1
    /\ UNCHANGED <<evars, rvars, sys_streams, block_history, variables_checkpoints,
                   heap, saved>>

\* clear_cache (129-140)
ClearCache ==
    LET c == ClearedExecutor(variables)
    IN  /\ HostCall("clear", -1, "None", c.variables, heap, c.code_cache,
                    c.execution_stats, c.block_history, c.variables_checkpoints)
        /\ saved' = [i \in BlockIndexes |-> [saved[i] EXCEPT !.present = FALSE]]

\* the host binds a name to a new object: executor.variables[name] = T()
NewObject(name, kind) ==
    /\ HostCall("bind", -1, "None",
                DictUpdate(variables, Bind(name, RefV(Len(heap) + 1))),
                Append(heap, [kind |-> kind, state |-> 0]),
                code_cache, execution_stats, block_history, variables_checkpoints)
    /\ UNCHANGED saved

\* the host, or any holder of the object, changes the object bound to name in
\* place: executor.variables[name].append(...), next(executor.variables[name])
MutateObject(name) ==
    /\ variables[name] # Unbound
    /\ IsRef(variables[name])
    /\ HostCall("mutate", -1, "None", variables,
                [heap EXCEPT ![variables[name][2]].state = 1 - @],
                code_cache, execution_stats, block_history, variables_checkpoints)
    /\ UNCHANGED saved

\* the host installs its own stdout and stderr, or puts the terminal's back
SetStreams(out, err) ==
    /\ sys_streams # Streams(out, err)
    /\ sys_streams' = Streams(out, err)
    /\ hostops' = hostops + 1
    /\ UNCHANGED <<evars, rvars, block_history, variables_checkpoints, heap, h_ret, saved>>

(***************************************************************************)
(* PyMDRenderer.  A document is the sequence of its fenced blocks, in      *)
(* document order: ``` blocks are executed, ```` blocks are displayed.     *)
(* A block whose fence encloses no line has code "".                       *)
(***************************************************************************)
ExecBlock(code) == [kind |-> "exec", code |-> code]

DisplayBlock(code) == [kind |-> "display", code |-> code]

\* last_full_content_hash = None
NoHash == <<"None">>

\* _get_content_hash: md5 of the raw text, taken as injective
GetContentHash(doc) == <<"md5", doc>>

\* add_element: elements.append({'type', 'content', 'html'})
AddElement(els, element_type, content, html) ==
    Append(els, [type |-> element_type, content |-> content, html |-> html])

\* _process_display_comments: a '#' comment is shown as a '//' comment
ProcessDisplayComments(code) ==
    CASE code = "a = 1  # note" -> "a = 1  // note"
      [] OTHER -> code

\* a key built from the position and the snapshot alone
ExecKey_NoText(index, code, variables_snapshot) ==
    <<"exec", index, "", SortedItems(variables_snapshot)>>

\* the key of an executable block: f"exec_{index}_{_get_code_hash(...)}"
ExecKey(index, code, variables_snapshot) ==
    <<"exec", index, code, SortedItems(variables_snapshot)>>

\* the key of a display block: f"display_{index}_{md5(code)}"
DisplayKey(index, code) == <<"display", index, code, <<>> >>

\* a trim that starts as soon as the cache is over half its capacity
RManageCacheSize_TrimOverHalf(cache) ==
    IF Len(cache) > MaxCacheSize \div 2
    THEN SubSeq(cache, Len(cache) - (MaxCacheSize \div 2) + 1, Len(cache))
    ELSE cache

\* the renderer's _manage_cache_size, the same text as the executor's
RManageCacheSize(cache) ==
    IF Len(cache) > MaxCacheSize
    THEN LET items_to_remove == Len(cache) - (MaxCacheSize \div 2)
         IN  SubSeq(cache, items_to_remove + 1, Len(cache))
    ELSE cache

\* the renderer's result dict before evaluation (389-395)
RInitResult(cache_key) ==
    [success |-> TRUE, output |-> <<>>, error |-> "", variables |-> EmptyDict,
     cache_key |-> cache_key]

\* exec_globals as built at 407-432: helpers first, variables over them
RExecGlobals(vars0, code, input_mocks) ==
    LET helpers == [n \in AllNames |->
                       CASE n = "__builtins__" -> HelperV(0)
                         [] n = "pymd" -> HelperV(1)
                         [] n = "plt" -> HelperV(2)
                         [] n = "pd" -> HelperV(3)
                         [] OTHER -> Unbound]
        g1 == DictUpdate(helpers, vars0)
    IN  IF CodeHasInputCall(code) /\ Len(input_mocks) > 0
        THEN DictUpdate(g1, Bind("input", MockInputV))
        ELSE g1

\* updated_vars (454-458)
RUpdatedVars(exec_globals) ==
    DictRestrict(exec_globals,
                 {k \in Keys(exec_globals) :
                     /\ ~StartsWithDunder(k)
                     /\ k \notin {"pymd", "pd", "input"}
                     /\ k # "plt"})

\* the elements a block adds to the document while it runs, by calling the
\* PyMD helper bound to pymd (PyMD.h1 51-56: renderer.add_element('h1', ...))
PyExecElements(code, g) ==
    IF code = "pymd.h1('T')" /\ g["pymd"] = HelperV(1)
    THEN <<[type |-> "h1", content |-> <<"title", 0>>, html |-> <<"h1", <<"title", 0>> >>]>>
    ELSE <<>>

\* PyMDRenderer.execute_code, always called with a cache_key by the render loop
RExecuteCode(vars0, cache0, code, cache_key) ==
    IF DictHas(cache0, cache_key)
    THEN LET cached_result == DictGet(cache0, cache_key)
         IN  [variables |-> DictUpdate(vars0, cached_result.variables),
              code_cache |-> cache0, hit |-> TRUE, raised |-> FALSE,
              added |-> <<>>,
              result |-> cached_result]
    ELSE LET input_mocks == ParseInputMocks(code)
             exec_globals == RExecGlobals(vars0, code, input_mocks)
             out == IF MockInstallRaises(code, input_mocks)
                    THEN Outcome("Exception", exec_globals, <<>>, "RuntimeError")
                    ELSE PyExec(code, exec_globals, input_mocks)
             result0 == RInitResult(cache_key)
         IN  CASE out.raised = "none" ->
                    LET vars1 == DictUpdate(vars0, RUpdatedVars(out.globals))
                        result == [result0 EXCEPT !.output = out.output,
                                                  !.variables = vars1]
                    IN  [variables |-> vars1,
                         code_cache |-> RManageCacheSize(DictSet(cache0, cache_key, result)),
                         added |-> PyExecElements(code, exec_globals),
                         hit |-> FALSE, raised |-> FALSE, result |-> result]
               [] out.raised = "Exception" ->
                    LET result == [result0 EXCEPT !.success = FALSE,
                                                  !.error = out.error,
                                                  !.output = out.output,
                                                  !.variables =
                                                      VariablesAfterFailure(vars0, out.globals)]
                    IN  [variables |-> VariablesAfterFailure(vars0, out.globals),
                         code_cache |-> RManageCacheSize(DictSet(cache0, cache_key, result)),
                         added |-> PyExecElements(code, exec_globals),
                         hit |-> FALSE, raised |-> FALSE, result |-> result]
               [] OTHER ->
                    [variables |-> vars0, code_cache |-> cache0,
                     added |-> PyExecElements(code, exec_globals),
                     hit |-> FALSE, raised |-> TRUE, result |-> result0]

\* _process_print_output_as_markdown for plain lines: one <p> per line
RECURSIVE PrintOutputElements(_, _, _)
PrintOutputElements(els, output, i) ==
    IF i > Len(output) THEN els
    ELSE PrintOutputElements(AddElement(els, "text", output[i], <<"p", output[i]>>),
                             output, i + 1)

\* what the render loop does with the value r that execute_code returned
\* for the block (1010-1026)
RenderExecResult(st, code, cache_key, r) ==
    LET entry == [kind |-> "exec", index |-> st.index, code |-> code, key |-> cache_key,
                  hit |-> r.hit, evaluated |-> ~r.hit, result_key |-> r.result.cache_key,
                  html |-> <<>>,
                  pre_variables |-> st.variables, post_variables |-> r.variables,
                  cache_before |-> st.code_cache, cache_after |-> r.code_cache]
    IN  IF r.raised
        THEN [st EXCEPT !.raised = TRUE,
                        !.elements = st.elements \o r.added,
                        !.trace = Append(st.trace, [entry EXCEPT !.result_key = cache_key]),
                        !.streams = StreamsAfterExecute(st.streams, code, FALSE,
                                                         "BaseException")]
        ELSE [st EXCEPT
                !.variables = r.variables,
                !.code_cache = r.code_cache,
                !.trace = Append(st.trace, entry),
                !.streams = StreamsAfterExecute(st.streams, code, r.hit,
                                RaisedKind(r.hit, r.raised, r.result.success)),
                !.elements =
                    IF r.result.success
                    THEN PrintOutputElements(st.elements \o r.added, r.result.output, 1)
                    ELSE AddElement(st.elements \o r.added, "error", r.result.error,
                                    <<"pre.error", r.result.error>>),
                !.index = st.index + 1,
                !.hits = st.hits + (IF r.hit THEN 1 ELSE 0),
                !.misses = st.misses + (IF r.hit THEN 0 ELSE 1)]

\* one ``` block of the render loop (1003-1026): the key is built once, then
\* execute_code is called once and its value handled
RenderExecBlock(st, code) ==
    CHOOSE next \in
        UNION {{RenderExecResult(st, code, cache_key, r) :
                   r \in {RExecuteCode(st.variables, st.code_cache, code, cache_key)}} :
               cache_key \in {ExecKey(st.index, code, GetVariableSnapshot(st.variables))}} :
        TRUE

\* a display block handled as an executable one
RenderDisplayBlock_Evaluates(st, code) == RenderExecBlock(st, code)

\* one ```` block of the render loop (1048-1066)
RenderDisplayBlock(st, code) ==
    LET cache_key == DisplayKey(st.index, code)
        entry == [kind |-> "display", index |-> st.index, code |-> code, key |-> cache_key,
                  hit |-> FALSE, evaluated |-> FALSE, result_key |-> cache_key,
                  html |-> <<>>,
                  pre_variables |-> st.variables, post_variables |-> st.variables,
                  cache_before |-> st.code_cache, cache_after |-> st.code_cache]
    IN  IF DictHas(st.code_cache, cache_key)
        THEN LET cached_html == DictGet(st.code_cache, cache_key).html
             IN  [st EXCEPT
                    !.elements = AddElement(st.elements, "display_code", code, cached_html),
                    !.trace = Append(st.trace, [entry EXCEPT !.hit = TRUE,
                                                             !.html = cached_html]),
                    !.index = st.index + 1]
        ELSE LET display_html == <<"pre.display-code", ProcessDisplayComments(code)>>
                 cache1 == DictSet(st.code_cache, cache_key, [html |-> display_html])
             IN  [st EXCEPT
                    !.elements = AddElement(st.elements, "display_code", code, display_html),
                    !.code_cache = cache1,
                    !.trace = Append(st.trace, [entry EXCEPT !.html = display_html,
                                                             !.cache_after = cache1]),
                    !.index = st.index + 1,
                    !.display_inserts = st.display_inserts + 1]

\* the while loop of parse_and_render over the blocks of the document
RECURSIVE RenderBlocks(_, _, _)
RenderBlocks(doc, i, st) ==
    IF i > Len(doc) \/ st.raised THEN st
    ELSE IF doc[i].code = ""
         THEN RenderBlocks(doc, i + 1, st)
         ELSE IF doc[i].kind = "exec"
              THEN CHOOSE last \in {RenderBlocks(doc, i + 1, next) :
                                       next \in {RenderExecBlock(st, doc[i].code)}} : TRUE
              ELSE CHOOSE last \in {RenderBlocks(doc, i + 1, next) :
                                       next \in {RenderDisplayBlock(st, doc[i].code)}} : TRUE

\* generate_html: the html of the elements, joined in order
GenerateHtml(els) == [i \in 1..Len(els) |-> els[i].html]

NoRender ==
    [op |-> "none", doc |-> <<>>, shortcut |-> FALSE, raised |-> FALSE,
     html |-> <<>>, hits |-> 0, misses |-> 0, display_inserts |-> 0,
     pre_cache |-> <<>>, pre_variables |-> EmptyDict, pre_hash |-> <<"None">>,
     pre_streams |-> [stdout |-> "tty", stderr |-> "tty"],
     post_streams |-> [stdout |-> "tty", stderr |-> "tty"], trace |-> <<>>]

\* PyMDRenderer.parse_and_render
ParseAndRender(doc) ==
    LET content_hash == GetContentHash(doc)
    IN  IF last_full_content_hash # NoHash /\ last_full_content_hash = content_hash
        THEN /\ r_ret' = [NoRender EXCEPT !.op = "render", !.doc = doc,
                                          !.shortcut = TRUE,
                                          !.html = GenerateHtml(elements),
                                          !.pre_cache = r_code_cache,
                                          !.pre_variables = r_variables,
                                          !.pre_hash = last_full_content_hash,
                                          !.pre_streams = sys_streams,
                                          !.post_streams = sys_streams]
             /\ r_prev' = r_ret
             /\ renders' = renders + 1
             /\ UNCHANGED <<r_variables, r_code_cache, elements, last_full_content_hash,
                            sys_streams>>
        ELSE LET st0 == [variables |-> r_variables, code_cache |-> r_code_cache,
                         elements |-> <<>>, index |-> 0, raised |-> FALSE,
                         hits |-> 0, misses |-> 0, display_inserts |-> 0,
                         trace |-> <<>>, streams |-> sys_streams]
             IN  \E st \in {RenderBlocks(doc, 1, st0)} :
                 /\ last_full_content_hash' = content_hash
                 /\ r_variables' = st.variables
                 /\ r_code_cache' = st.code_cache
                 /\ elements' = st.elements
                 /\ renders' = renders + 1
                 /\ r_ret' = [op |-> "render", doc |-> doc, shortcut |-> FALSE,
                              raised |-> st.raised,
                              html |-> IF st.raised THEN <<>> ELSE GenerateHtml(st.elements),
                              hits |-> st.hits, misses |-> st.misses,
                              display_inserts |-> st.display_inserts,
                              pre_cache |-> r_code_cache,
                              pre_variables |-> r_variables,
                              pre_hash |-> last_full_content_hash,
                              pre_streams |-> sys_streams,
                              post_streams |-> st.streams,
                              trace |-> st.trace]
                 /\ r_prev' = r_ret
                 /\ sys_streams' = st.streams

Render(doc) ==
    /\ ParseAndRender(doc)
    /\ UNCHANGED <<evars, cvars>>

\* a clear that forgets the cache and keeps the whole-document hash
RClearCache_KeepsHash ==
    /\ r_code_cache' = <<>>
    /\ r_ret' = [NoRender EXCEPT !.op = "clear",
                                 !.doc = r_ret.doc,
                                 !.pre_cache = r_code_cache,
                                 !.pre_variables = r_variables,
                                 !.pre_hash = last_full_content_hash,
                                 !.pre_streams = sys_streams,
                                 !.post_streams = sys_streams]
    /\ r_prev' = r_ret
    /\ hostops' = hostops + 1
    /\ UNCHANGED <<r_variables, elements, renders, sys_streams, last_full_content_hash>>
    /\ UNCHANGED <<evars, block_history, variables_checkpoints, heap, h_ret, saved>>

\* PyMDRenderer.clear_cache (355-358)
RClearCache ==
    /\ r_code_cache' = <<>>
    /\ last_full_content_hash' = NoHash
    /\ r_ret' = [NoRender EXCEPT !.op = "clear",
                                 !.doc = r_ret.doc,
                                 !.pre_cache = r_code_cache,
                                 !.pre_variables = r_variables,
                                 !.pre_hash = last_full_content_hash,
                                 !.pre_streams = sys_streams,
                                 !.post_streams = sys_streams]
    /\ r_prev' = r_ret
    /\ hostops' = hostops + 1
    /\ UNCHANGED <<r_variables, elements, renders, sys_streams>>
    /\ UNCHANGED <<evars, block_history, variables_checkpoints, heap, h_ret, saved>>

Init ==
    /\ variables = EmptyDict
    /\ code_cache = <<>>
    /\ execution_stats = InitStats
    /\ calls = 0
    /\ ret = NoRet
    /\ prevRet = NoRet
    /\ seen = {}
    /\ r_variables = EmptyDict
    /\ r_code_cache = <<>>
    /\ elements = <<>>
    /\ last_full_content_hash = NoHash
    /\ renders = 0
    /\ r_ret = NoRender
    /\ r_prev = NoRender
    /\ block_history = <<>>
    /\ variables_checkpoints = NoCheckpoints
    /\ heap = <<>>
    /\ hostops = 0
    /\ h_ret = NoHostRet
    /\ saved = NoCheckpoints
    /\ sys_streams = Streams("tty", "tty")

(***************************************************************************)
(* Spec: one executor, every kind of block, with and without injected      *)
(* helpers, engine-computed keys.                                          *)
(***************************************************************************)
\* execute_code calls explored under Spec
MaxCalls == 2

Codes == {"x = 5", "y = x + 1", "print(x)", "y = 0; print(1); 1/0",
          "raise SystemExit", "input = 3", "__t = 1", "y = input()  # input: 2"}

\* custom_globals: None, or the helpers a host injects
CustomGlobals == {EmptyDict, Bind("pymd", HelperV(1))}

\* values the host assigns to a variable between calls
HostValues == {IntV(10), MutV(1), MutV(2)}

ExecuteAny ==
    /\ calls < MaxCalls
    /\ \E code \in Codes, cg \in CustomGlobals : Execute(code, NoKey, cg, 1)

SetAny ==
    /\ calls < MaxCalls
    /\ \E v \in HostValues : SetVariable("x", v)

Next == ExecuteAny \/ SetAny

Spec == Init /\ [][Next]_vars

(***************************************************************************)
(* SpecCache: the blocks of the end-to-end scenario, re-executed and       *)
(* interleaved with host assignments.                                      *)
(***************************************************************************)
\* execute_code calls explored under SpecCache
MaxCacheCalls == 3

CacheCodes == {"x = 5", "y = x + 1", "print(1)", "1/0"}

ExecuteCached ==
    /\ calls < MaxCacheCalls
    /\ \E code \in CacheCodes : Execute(code, NoKey, EmptyDict, 1)

SetCached ==
    /\ calls < MaxCacheCalls
    /\ \/ \E v \in {IntV(10), ObjV(1)} : SetVariable("x", v)
       \/ SetVariable("y", ObjV(1))

NextCache == ExecuteCached \/ SetCached

SpecCache == Init /\ [][NextCache]_vars

(***************************************************************************)
(* SpecStats: the scenario's blocks under every measured duration.         *)
(***************************************************************************)
\* durations time.time() - start_time can measure for one call, in ticks
ExecTimes == 0..MaxExecTime

ExecuteTimed ==
    /\ calls < MaxCacheCalls
    /\ \E code \in CacheCodes, t \in ExecTimes : Execute(code, NoKey, EmptyDict, t)

NextStats == ExecuteTimed

SpecStats == Init /\ [][NextStats]_vars

(***************************************************************************)
(* SpecEvict: enough distinct keys to overflow the cache, with hits        *)
(* in between.                                                             *)
(***************************************************************************)
EvictCodes == {"print(1)", "print(x)"}

ExecuteEvict ==
    /\ calls < MaxExecs
    /\ \E code \in EvictCodes : Execute(code, NoKey, EmptyDict, 1)

SetEvict ==
    /\ calls < MaxExecs
    /\ \E v \in {IntV(5), IntV(10)} : SetVariable("x", v)

NextEvict == ExecuteEvict \/ SetEvict

SpecEvict == Init /\ [][NextEvict]_vars

(***************************************************************************)
(* SpecRender: one renderer, documents of executable and display blocks.   *)
(***************************************************************************)
\* parse_and_render calls explored under SpecRender
MaxRenders == 3

\* the documents a host renders
Docs ==
    {<< >>,
     <<ExecBlock("x = 5"), ExecBlock("print(x)")>>,
     <<ExecBlock("x = 5"), DisplayBlock("a = 1  # note"), ExecBlock("print(x)")>>,
     <<ExecBlock("print(x)")>>,
     <<ExecBlock(""), ExecBlock("pymd = 1"), ExecBlock("y = x + 1")>>,
     <<ExecBlock("__t = 1"), ExecBlock("y = input()  # input: 2")>>,
     <<DisplayBlock("a = 1  # note"), DisplayBlock("y = x + 1")>>,
     <<DisplayBlock("y = x + 1"), DisplayBlock("a = 1  # note")>>,
     <<ExecBlock("x = 5"), ExecBlock("raise SystemExit")>>,
     [i \in 1..(MaxCacheSize + 1) |-> ExecBlock("print(1)")]}

RenderAny ==
    /\ renders < MaxRenders
    /\ \E doc \in Docs : Render(doc)

NextRender == RenderAny

SpecRender == Init /\ [][NextRender]_vars

(***************************************************************************)
(* SpecClear: a host that executes, records block history, saves a         *)
(* checkpoint, renders, and clears the executor's and the renderer's cache.*)
(***************************************************************************)
\* operations a host makes on the executor and the renderer together
MaxHostOps == 5

\* operations made so far
OpsMade == calls + hostops + renders

ExecuteClear ==
    /\ OpsMade < MaxHostOps
    /\ Execute("x = 5", NoKey, EmptyDict, 1)

HistoryClear ==
    /\ OpsMade < MaxHostOps
    /\ \E i \in BlockIndexes : UpdateBlockHistory(i, "x = 5")

SaveClear ==
    /\ OpsMade < MaxHostOps
    /\ SaveCheckpoint(0)

ClearExecutor ==
    /\ OpsMade < MaxHostOps
    /\ ClearCache

RenderClear ==
    /\ OpsMade < MaxHostOps
    /\ Render(<<ExecBlock("x = 5"), DisplayBlock("a = 1  # note")>>)

ClearRenderer ==
    /\ OpsMade < MaxHostOps
    /\ RClearCache

NextClear ==
    \/ ExecuteClear \/ HistoryClear \/ SaveClear \/ ClearExecutor
    \/ RenderClear \/ ClearRenderer

SpecClear == Init /\ [][NextClear]_vars

(***************************************************************************)
(* SpecCheckpoint: a host that binds objects, mutates them in place,       *)
(* executes blocks, and saves, restores and clears checkpoints.            *)
(***************************************************************************)
CheckpointCodes == {"x = 5", "y = input()  # input: 2"}

\* what copy.deepcopy does with the objects a host binds
ObjectKinds == {"deep", "raises"}

ExecuteCk ==
    /\ OpsMade < MaxHostOps
    /\ \E code \in CheckpointCodes : Execute(code, NoKey, EmptyDict, 1)

NewObjectCk ==
    /\ OpsMade < MaxHostOps
    /\ \E kind \in ObjectKinds : NewObject("x", kind)

MutateCk ==
    /\ OpsMade < MaxHostOps
    /\ MutateObject("x")

SaveCk ==
    /\ OpsMade < MaxHostOps
    /\ \E i \in BlockIndexes : SaveCheckpoint(i)

RestoreCk ==
    /\ OpsMade < MaxHostOps
    /\ \E i \in BlockIndexes : RestoreCheckpoint(i)

ClearCk ==
    /\ OpsMade < MaxHostOps
    /\ ClearCache

NextCheckpoint ==
    ExecuteCk \/ NewObjectCk \/ MutateCk \/ SaveCk \/ RestoreCk \/ ClearCk

SpecCheckpoint == Init /\ [][NextCheckpoint]_vars

(***************************************************************************)
(* SpecRenderClear: renders interleaved with the renderer's clear_cache.   *)
(***************************************************************************)
ClearDocs ==
    {<< >>,
     <<ExecBlock("x = 5"), ExecBlock("print(x)")>>,
     <<DisplayBlock("a = 1  # note")>>}

RenderCleared ==
    /\ OpsMade < MaxHostOps
    /\ \E doc \in ClearDocs : Render(doc)

ClearRendered ==
    /\ OpsMade < MaxHostOps
    /\ RClearCache

NextRenderClear == RenderCleared \/ ClearRendered

SpecRenderClear == Init /\ [][NextRenderClear]_vars

(***************************************************************************)
(* SpecEdit: a document re-rendered after an edit of one block's text.     *)
(***************************************************************************)
EditDocs ==
    {<<ExecBlock("print(1)")>>,
     <<ExecBlock("print(x)")>>,
     <<ExecBlock("__t = 1")>>,
     <<ExecBlock("pymd = 1")>>,
     <<ExecBlock("x = 5")>>,
     <<ExecBlock("x = 5"), ExecBlock("print(x)")>>,
     <<ExecBlock("x = 5"), ExecBlock("print(1)")>>}

RenderEdited ==
    /\ renders < MaxRenders
    /\ \E doc \in EditDocs : Render(doc)

NextEdit == RenderEdited

SpecEdit == Init /\ [][NextEdit]_vars

(***************************************************************************)
(* SpecDoc: a host that executes the blocks of a document through          *)
(* CodeExecutor.execute_code, block by block.                              *)
(***************************************************************************)
DocCodes == {"print(1)", "x = 5", "1/0"}

ExecuteBlockAny ==
    /\ calls < MaxCacheCalls
    /\ \E i \in BlockIndexes, code \in DocCodes : ExecuteAt(i, code, NoKey, EmptyDict, 1)

NextDoc == ExecuteBlockAny

SpecDoc == Init /\ [][NextDoc]_vars

(***************************************************************************)
(* SpecHistory: a host that records the blocks of its documents and asks   *)
(* for the first changed block.                                            *)
(***************************************************************************)
\* the longest document of SpecHistory
MaxBlocks == 3

HistoryCodes == {"x = 5", "print(1)"}

HistoryDocs == UNION {[1..n -> HistoryCodes] : n \in 0..MaxBlocks}

UpdateHistory ==
    /\ hostops < MaxHostOps
    /\ \E i \in 0..(MaxBlocks - 1), code \in HistoryCodes : UpdateBlockHistory(i, code)

FindChanged ==
    /\ hostops < MaxHostOps
    /\ \E doc \in HistoryDocs : FindFirstChanged(doc)

ClearHistory ==
    /\ hostops < MaxHostOps
    /\ block_history # <<>>
    /\ ClearCache

NextHistory == UpdateHistory \/ FindChanged \/ ClearHistory

SpecHistory == Init /\ [][NextHistory]_vars

(***************************************************************************)
(* SpecFail: blocks that fail, some after binding names and printing.      *)
(***************************************************************************)
FailCodes ==
    {"x = 5", "1/0", "y = 0; print(1); 1/0", "raise SystemExit",
     "for i in range(2): y = input()  # input: 2"}

FailDocs ==
    {<<ExecBlock("x = 5"), ExecBlock("y = 0; print(1); 1/0")>>,
     <<ExecBlock("1/0"), ExecBlock("for i in range(2): y = input()  # input: 2"),
       ExecBlock("y = 0; print(1); 1/0"), ExecBlock("x = 5")>>}

ExecuteFail ==
    /\ OpsMade < MaxHostOps
    /\ \E code \in FailCodes : Execute(code, NoKey, EmptyDict, 1)

RenderFail ==
    /\ OpsMade < MaxHostOps
    /\ \E doc \in FailDocs : Render(doc)

NextFail == ExecuteFail \/ RenderFail

SpecFail == Init /\ [][NextFail]_vars

(***************************************************************************)
(* SpecHelper: documents whose blocks call the injected PyMD helper, read  *)
(* names that later blocks bind, and the same blocks given to the executor.*)
(***************************************************************************)
HelperDocs ==
    {<<ExecBlock("pymd.h1('T')")>>,
     <<ExecBlock("pymd.h1('T')"), ExecBlock("x = 5")>>,
     <<ExecBlock("x = 5"), ExecBlock("print(x)")>>,
     <<ExecBlock("x = 5"), ExecBlock("y = x + 1"), ExecBlock("print(x)")>>}

HelperCodes == {"x = 5", "y = x + 1", "print(x)"}

RenderHelper ==
    /\ renders < MaxRenders
    /\ \E doc \in HelperDocs : Render(doc)

ExecuteHelper ==
    /\ calls < MaxCalls
    /\ \E code \in HelperCodes : Execute(code, NoKey, EmptyDict, 1)

NextHelper == RenderHelper \/ ExecuteHelper

SpecHelper == Init /\ [][NextHelper]_vars

(***************************************************************************)
(* SpecNames: blocks that bind and delete names, checkpoints, clears and   *)
(* renders of documents that lose the block that bound a name.             *)
(***************************************************************************)
NameCodes == {"x = 5", "del x"}

NameDocs == {<<ExecBlock("x = 5"), ExecBlock("del x")>>, <<ExecBlock("print(1)")>>}

ExecuteNames ==
    /\ OpsMade < MaxHostOps
    /\ \E code \in NameCodes : Execute(code, NoKey, EmptyDict, 1)

RenderNames ==
    /\ OpsMade < MaxHostOps
    /\ \E doc \in NameDocs : Render(doc)

SaveNames == OpsMade < MaxHostOps /\ SaveCheckpoint(0)

RestoreNames == OpsMade < MaxHostOps /\ RestoreCheckpoint(0)

ClearNames == OpsMade < MaxHostOps /\ ClearCache

NextNames == ExecuteNames \/ RenderNames \/ SaveNames \/ RestoreNames \/ ClearNames

SpecNames == Init /\ [][NextNames]_vars

(***************************************************************************)
(* SpecCount: calls that hit, miss, fail and exit, interleaved with        *)
(* clear_cache.                                                            *)
(***************************************************************************)
CountCodes == {"print(1)", "x = 5", "1/0", "raise SystemExit"}

ExecuteCount ==
    /\ calls < MaxCacheCalls
    /\ \E code \in CountCodes : Execute(code, NoKey, EmptyDict, 1)

ClearCount ==
    /\ hostops < MaxCalls
    /\ ClearCache

NextCount == ExecuteCount \/ ClearCount

SpecCount == Init /\ [][NextCount]_vars

(***************************************************************************)
(* SpecInput: blocks that call input(), with and without annotations.      *)
(***************************************************************************)
InputCodes ==
    {"y = input()  # input: 2",
     "y = input()",
     "x = input()  # input: 1\ny = input()  # input: 2",
     "x = input()\ny = input()  # input: 2",
     "if 0: x = input()  # input: 1\ny = input()  # input: 2",
     "x = input(); y = input()  # input: 1",
     "for i in range(2): y = input()  # input: 2"}

InputDocs ==
    {<<ExecBlock("x = input()  # input: 1\ny = input()  # input: 2"),
       ExecBlock("for i in range(2): y = input()  # input: 2")>>,
     <<ExecBlock("if 0: x = input()  # input: 1\ny = input()  # input: 2")>>,
     <<ExecBlock("x = input()\ny = input()  # input: 2"),
       ExecBlock("x = input(); y = input()  # input: 1")>>}

\* block texts without the text 'input('
NoInputCodes == {"print(1)", "input = 3"}

ExecuteInput ==
    /\ calls + renders < MaxCacheCalls
    /\ \E code \in InputCodes \cup NoInputCodes : Execute(code, NoKey, EmptyDict, 1)

RenderInput ==
    /\ calls + renders < MaxCacheCalls
    /\ \E doc \in InputDocs : Render(doc)

NextInput == ExecuteInput \/ RenderInput

SpecInput == Init /\ [][NextInput]_vars

(***************************************************************************)
(* SpecStreams: calls that end on every path, under the terminal's streams *)
(* and under streams the host installed.                                   *)
(***************************************************************************)
StreamCodes == {"print(1)", "1/0", "raise SystemExit", "__import__('sys').stdout = None"}

StreamDocs ==
    {<<ExecBlock("print(1)"), ExecBlock("1/0")>>,
     <<ExecBlock("__import__('sys').stdout = None"), ExecBlock("raise SystemExit")>>}

ExecuteStreams ==
    /\ OpsMade < MaxHostOps
    /\ \E code \in StreamCodes : Execute(code, NoKey, EmptyDict, 1)

RenderStreams ==
    /\ OpsMade < MaxHostOps
    /\ \E doc \in StreamDocs : Render(doc)

HostStreams ==
    /\ OpsMade < MaxHostOps
    /\ \E out \in {"tty", "host"} : SetStreams(out, out)

NextStreams == ExecuteStreams \/ RenderStreams \/ HostStreams

SpecStreams == Init /\ [][NextStreams]_vars

(***************************************************************************)
(* Properties.                                                             *)
(***************************************************************************)
\* the two latest calls executed the same text under engine-computed keys
SameBlockTwice ==
    /\ ret.op = "execute" /\ prevRet.op = "execute"
    /\ ret.code = prevRet.code
    /\ ~ret.key_given /\ ~prevRet.key_given

\* the last n elements of a sequence
LastN(seq, n) == SubSeq(seq, Len(seq) - n + 1, Len(seq))

\* C1: executing a block is a cache miss and executing the same text again
\* with no change to the environment in between is a cache hit that leaves
\* the environment as the first call left it and returns the first call's
\* stdout; after Execute("x = 5"), Execute("y = x + 1"), Execute("y = x + 1")
\* from an empty environment the third call is a hit and cache_hits = 1.
C1_RepeatIsHit ==
    /\ (SameBlockTwice /\ ~prevRet.hit /\ ~prevRet.raised /\ ret.pre = prevRet.post)
           => /\ ret.hit
              /\ ret.post = prevRet.post
              /\ ret.result.output = prevRet.result.output
    /\ (/\ SameBlockTwice /\ calls = 3
        /\ ret.code = "y = x + 1"
        /\ seen = {<<"x = 5", EmptyDict>>, <<"y = x + 1", Bind("x", IntV(5))>>,
                   <<"y = x + 1", ret.pre>>}
        /\ ret.pre = prevRet.post)
           => ret.hit /\ execution_stats.cache_hits = 1

\* C2 as stated: if the value of any variable was changed between two
\* executions of the same block text, the second execution is a cache miss.
C2_AnyChangeForcesMiss ==
    (SameBlockTwice /\ ret.pre # prevRet.post) => ~ret.hit

\* C2: an execution of a block text that starts from an environment whose
\* snapshot text (the names and repr texts of the bindings whose str()
\* succeeds) differs from the one at the start of every earlier execution of
\* that text is a cache miss, whatever the history.
C2_FreshSnapshotForcesMiss ==
    (ret.op = "execute" /\ ~ret.key_given /\ ret.fresh) => ~ret.hit

\* the host changed x, which "print(1)" never reads, between two executions
\* of "print(1)", and the second one missed
C2_Witness ==
    /\ SameBlockTwice
    /\ ret.code = "print(1)"
    /\ ret.pre["x"] # prevRet.post["x"]
    /\ ret.fresh
    /\ ~prevRet.hit /\ ~ret.hit

\* the call that inserted the (MaxCacheSize+1)-th distinct key into a cache
\* that started empty
FirstOverflow ==
    /\ ret.op = "execute" /\ ~ret.hit /\ ~ret.raised
    /\ execution_stats.cache_misses = MaxCacheSize + 1
    /\ Len(ret.pre_cache) = MaxCacheSize

\* the keys in insertion order once the latest call has inserted its own
InsertedKeys == Append(DictKeys(ret.pre_cache), ret.result.cache_key)

\* C3 as stated: after capacity+1 distinct inserts the cache holds exactly
\* the newest ceil(capacity/2)+1 keys.
C3_KeepsCeilHalfPlusOne ==
    FirstOverflow =>
        DictKeys(code_cache) = LastN(InsertedKeys, ((MaxCacheSize + 1) \div 2) + 1)

\* C3: after capacity+1 distinct inserts into an empty cache the cache holds
\* exactly the newest floor(capacity/2) keys, the new entry among them, and
\* every older key is gone.
C3_KeepsFloorHalf ==
    FirstOverflow =>
        /\ DictKeys(code_cache) = LastN(InsertedKeys, MaxCacheSize \div 2)
        /\ \A i \in 1..(Len(InsertedKeys) - (MaxCacheSize \div 2)) :
               ~DictHas(code_cache, InsertedKeys[i])

C3_Witness == FirstOverflow /\ DictHas(code_cache, ret.result.cache_key)

\* seq is a suffix of whole
IsSuffix(seq, whole) ==
    /\ Len(seq) <= Len(whole)
    /\ seq = SubSeq(whole, Len(whole) - Len(seq) + 1, Len(whole))

\* C4: a hit leaves the cache, its order included, as it was, and a miss
\* removes only a prefix of the insertion order: what a trim evicts depends
\* on insertion order alone, however often an entry was hit.
C4_EvictionIgnoresHits ==
    /\ (ret.op = "execute" /\ ret.hit) => code_cache = ret.pre_cache
    /\ (ret.op = "execute" /\ ~ret.hit /\ ~ret.raised) =>
           /\ IsSuffix(DictKeys(code_cache), InsertedKeys)
           /\ Len(InsertedKeys) > MaxCacheSize =>
                  Len(code_cache) = MaxCacheSize \div 2

\* an entry was hit and the very next call, a miss, evicted it while a
\* younger entry that was never hit in between survived
C4_Witness ==
    /\ prevRet.op = "execute" /\ prevRet.hit
    /\ ret.op = "execute" /\ ~ret.hit
    /\ DictHas(ret.pre_cache, prevRet.result.cache_key)
    /\ ~DictHas(code_cache, prevRet.result.cache_key)
    /\ Len(code_cache) >= 1

\* C5: after every operation that inserts into a result cache (a miss of an
\* executable block, the insert of a display block) the cache holds at most
\* max_cache_size entries.
C5_SizeWithinCapacity ==
    /\ Len(code_cache) <= MaxCacheSize
    /\ Len(r_code_cache) <= MaxCacheSize

\* the evaluation of the latest call's block ended in an exception
EvaluationFailed(r) == r.op = "execute" /\ ~r.hit /\ (r.raised \/ ~r.result.success)

\* C6: a failed evaluation is stored in the cache under the block's key and
\* a second Execute of the block, environment unchanged, is a hit that
\* returns the identical failure without evaluating again.
C6_ErrorMemoized ==
    /\ EvaluationFailed(ret) =>
           /\ DictHas(code_cache, ret.result.cache_key)
           /\ DictGet(code_cache, ret.result.cache_key) = ret.result
           /\ ~ret.result.success
    /\ (SameBlockTwice /\ EvaluationFailed(prevRet) /\ ret.pre = prevRet.post) =>
           /\ ret.hit /\ ~ret.evaluated
           /\ ret.result = prevRet.result

\* C7: no exception leaves Execute; a failure while installing the mock or
\* evaluating the block is returned as success = False with an error text.
C7_ExecuteTotal ==
    ret.op = "execute" =>
        /\ ~ret.raised
        /\ (~ret.hit /\ ~ret.result.success) => ret.result.error # ""

\* C8: after Execute completes the environment holds no name starting with
\* '__', no 'input', and no name supplied through custom_globals.
C8_NoHelperLeaks ==
    (ret.op = "execute" /\ ~ret.raised) =>
        \A n \in Keys(ret.post) :
            /\ ~StartsWithDunder(n)
            /\ n # "input"
            /\ n \notin Keys(ret.custom)

\* the post-state a hit found in the cache
CachedPostState == DictGet(ret.pre_cache, ret.result.cache_key).variables

\* C9: a hit binds every name of the cached post-state to its cached value,
\* leaves every other bound name as it was, removes none, evaluates nothing,
\* adds one to cache_hits and total_executions and leaves cache_misses and
\* the cache unchanged.
C9_HitMergesByNameUnion ==
    (ret.op = "execute" /\ ret.hit) =>
        /\ \A n \in AllNames :
               IF CachedPostState[n] # Unbound
               THEN ret.post[n] = CachedPostState[n]
               ELSE ret.post[n] = ret.pre[n]
        /\ Keys(ret.pre) \subseteq Keys(ret.post)
        /\ ~ret.evaluated
        /\ execution_stats.cache_hits = ret.pre_stats.cache_hits + 1
        /\ execution_stats.total_executions = ret.pre_stats.total_executions + 1
        /\ execution_stats.cache_misses = ret.pre_stats.cache_misses
        /\ code_cache = ret.pre_cache

\* a hit under an environment that binds a name the cached post-state lacks
\* and overwrites another with its cached value
C9_Witness ==
    /\ ret.op = "execute" /\ ret.hit
    /\ \E n \in Keys(ret.pre) : CachedPostState[n] = Unbound
    /\ \E n \in Keys(ret.pre) :
           CachedPostState[n] # Unbound /\ CachedPostState[n] # ret.pre[n]

\* C10: whenever total_executions > 0,
\* average_execution_time = total_execution_time / total_executions.
C10_AverageIsTotalOverExecutions ==
    execution_stats.total_executions > 0 =>
        execution_stats.average_execution_time.num * execution_stats.total_executions
            = execution_stats.total_execution_time
                  * execution_stats.average_execution_time.den

\* C11: clear_cache empties the result cache, sets every statistics counter
\* to zero and empties the block history, and leaves every binding of the
\* environment, and the object it refers to, as it was; the renderer's
\* clear_cache empties its cache and leaves its environment as it was.
C11_ClearKeepsEnvironment ==
    /\ h_ret.op = "clear" =>
           /\ h_ret.post_cache = <<>>
           /\ h_ret.post_stats.total_executions = 0
           /\ h_ret.post_stats.cache_hits = 0
           /\ h_ret.post_stats.cache_misses = 0
           /\ h_ret.post_stats.total_execution_time = 0
           /\ h_ret.post_stats.average_execution_time.num = 0
           /\ h_ret.post_history = <<>>
           /\ h_ret.post = h_ret.pre
           /\ h_ret.post_values = h_ret.pre_values
    /\ r_ret.op = "clear" =>
           /\ r_code_cache = <<>>
           /\ r_variables = r_ret.pre_variables

\* both caches were cleared while they held entries, the counters were not
\* zero, the history was not empty and both environments held bindings
C11_Witness ==
    /\ h_ret.op = "clear"
    /\ h_ret.pre_cache # <<>>
    /\ h_ret.pre_stats.total_executions > 0
    /\ h_ret.pre_history # <<>>
    /\ Keys(h_ret.pre) # {}
    /\ r_ret.op = "clear"
    /\ r_ret.pre_cache # <<>>
    /\ Keys(r_variables) # {}

\* a value copy.deepcopy copies: an immutable value, or an object it rebuilds
Cloneable(v) == v[1] # "object" \/ v[2] = "deep"

\* C12: restore_checkpoint(i), after save_checkpoint(i) and any execute_code
\* calls, rebindings and in-place mutations since, returns True and leaves
\* the environment binding exactly the names bound at save time, each
\* cloneable one to the value it had at save time.
C12_CheckpointRoundTrip ==
    (h_ret.op = "restore" /\ h_ret.saved.present) =>
        /\ h_ret.returned = "True"
        /\ Keys(h_ret.post) = Keys(h_ret.saved.variables)
        /\ \A n \in Keys(h_ret.saved.variables) :
               Cloneable(h_ret.saved.variables[n]) =>
                   h_ret.post_values[n] = h_ret.saved.variables[n]

\* a restore that undid an in-place mutation of a copied object and dropped
\* a name bound after the save
C12_Witness ==
    /\ h_ret.op = "restore" /\ h_ret.saved.present
    /\ \E n \in Keys(h_ret.saved.variables) :
           /\ h_ret.saved.variables[n][1] = "object"
           /\ h_ret.saved.variables[n][2] = "deep"
           /\ h_ret.pre_values[n] # h_ret.saved.variables[n]
           /\ h_ret.post_values[n] = h_ret.saved.variables[n]
    /\ Keys(h_ret.pre) \ Keys(h_ret.saved.variables) # {}

\* C13: restore_checkpoint(i) for an index with no saved checkpoint returns
\* False and leaves the environment, the objects, the cache, the statistics
\* and the stored checkpoints as they were.
C13_RestoreAbsentIsNoOp ==
    (h_ret.op = "restore" /\ ~h_ret.pre_checkpoints[h_ret.index].present) =>
        /\ h_ret.returned = "False"
        /\ h_ret.post = h_ret.pre
        /\ h_ret.post_heap = h_ret.pre_heap
        /\ h_ret.post_cache = h_ret.pre_cache
        /\ h_ret.post_stats = h_ret.pre_stats
        /\ h_ret.post_checkpoints = h_ret.pre_checkpoints

\* a restore of an absent index while the environment, the cache and another
\* index's checkpoint were not empty
C13_Witness ==
    /\ h_ret.op = "restore" /\ ~h_ret.pre_checkpoints[h_ret.index].present
    /\ h_ret.returned = "False"
    /\ Keys(h_ret.pre) # {}
    /\ h_ret.pre_cache # <<>>
    /\ \E j \in BlockIndexes : h_ret.pre_checkpoints[j].present

\* the blocks of a document the render loop processes: those with a line
NonEmptyBlocks(doc) == SelectSeq(doc, LAMBDA b : b.code # "")

\* how many of them are of one kind
CountBlocks(doc, kind) ==
    Cardinality({i \in 1..Len(NonEmptyBlocks(doc)) : NonEmptyBlocks(doc)[i].kind = kind})

\* how many cache entries have a key of one kind ("exec" or "display")
CountEntries(cache, kind) ==
    Cardinality({i \in 1..Len(cache) : cache[i].key[1] = kind})

\* the latest renderer call rendered the text of the call just before it,
\* which had returned
RenderedSameTextAgain ==
    /\ r_ret.op = "render" /\ r_prev.op = "render"
    /\ r_ret.doc = r_prev.doc
    /\ ~r_prev.raised

\* a render of the same text right after a render that returned takes the
\* shortcut: same output, no block processed, environment and cache untouched
ShortcutIsFree ==
    RenderedSameTextAgain =>
        /\ r_ret.shortcut /\ ~r_ret.raised
        /\ r_ret.html = r_prev.html
        /\ r_ret.trace = <<>> /\ r_ret.hits = 0 /\ r_ret.misses = 0
        /\ r_variables = r_ret.pre_variables
        /\ r_code_cache = r_ret.pre_cache

RenderedSameTextAfterClear ==
    /\ r_ret.op = "render" /\ r_prev.op = "clear"
    /\ renders >= 2
    /\ r_ret.doc = r_prev.doc
    /\ ~r_ret.raised

\* C15 as stated: after clear_cache the cache is empty and the hash unset;
\* the next render of the same text walks every block and the cache is
\* non-empty again afterwards.
C15_RenderAfterClearRefillsCache ==
    /\ r_ret.op = "clear" => (r_code_cache = <<>> /\ last_full_content_hash = NoHash)
    /\ (RenderedSameTextAfterClear /\ r_prev.pre_cache # <<>>) =>
           /\ ~r_ret.shortcut
           /\ Len(r_ret.trace) = Len(NonEmptyBlocks(r_ret.doc))
           /\ r_code_cache # <<>>

\* C15: after clear_cache the cache is empty and the hash unset; the next
\* render of the same text does not take the shortcut, processes every
\* non-empty block with no cache hit, and leaves one cache entry per
\* non-empty block: a non-empty cache exactly when the text has such a block.
C15_RenderAfterClearWalksEveryBlock ==
    /\ r_ret.op = "clear" => (r_code_cache = <<>> /\ last_full_content_hash = NoHash)
    /\ RenderedSameTextAfterClear =>
           /\ ~r_ret.shortcut
           /\ Len(r_ret.trace) = Len(NonEmptyBlocks(r_ret.doc))
           /\ r_ret.hits = 0
           /\ \A k \in 1..Len(r_ret.trace) : ~r_ret.trace[k].hit
           /\ Len(NonEmptyBlocks(r_ret.doc)) <= MaxCacheSize =>
                  Len(r_code_cache) = Len(NonEmptyBlocks(r_ret.doc))
           /\ (r_code_cache # <<>>) <=> (Len(NonEmptyBlocks(r_ret.doc)) > 0)

\* a text with two blocks rendered, the cache cleared while it held their
\* entries, and the text rendered again: both blocks evaluated again
C15_Witness ==
    /\ RenderedSameTextAfterClear
    /\ r_prev.pre_cache # <<>>
    /\ r_prev.pre_hash = GetContentHash(r_ret.doc)
    /\ ~r_ret.shortcut
    /\ r_ret.misses = 2
    /\ Len(r_code_cache) = 2

\* the two latest renderer calls walked two documents that have the same
\* blocks except for the text of the executable block at position k
EditedAt(k) ==
    /\ r_ret.op = "render" /\ r_prev.op = "render"
    /\ ~r_ret.shortcut /\ ~r_prev.shortcut
    /\ ~r_ret.raised /\ ~r_prev.raised
    /\ Len(r_ret.doc) = Len(r_prev.doc)
    /\ Len(r_ret.trace) = Len(r_ret.doc)
    /\ k \in 1..Len(r_ret.doc)
    /\ r_ret.doc[k].kind = "exec" /\ r_prev.doc[k].kind = "exec"
    /\ r_ret.doc[k].code # r_prev.doc[k].code
    /\ \A j \in 1..Len(r_ret.doc) : j # k => r_ret.doc[j] = r_prev.doc[j]

\* no block of the latest render can have caused a trim
BelowCapacity == Len(r_ret.pre_cache) + Len(r_ret.doc) <= MaxCacheSize

\* every entry the cache held before the latest render is still there, in place
PreviousEntriesRetained ==
    /\ Len(r_code_cache) >= Len(r_ret.pre_cache)
    /\ SubSeq(r_code_cache, 1, Len(r_ret.pre_cache)) = r_ret.pre_cache

CachedAtPosition(index, code) ==
    \E i \in 1..Len(r_ret.pre_cache) :
        /\ r_ret.pre_cache[i].key[1] = "exec"
        /\ r_ret.pre_cache[i].key[2] = index
        /\ r_ret.pre_cache[i].key[3] = code

C17_KeyIncludesPosition ==
    /\ (/\ ret.op = "execute" /\ prevRet.op = "execute"
        /\ ~ret.key_given /\ ~prevRet.key_given
        /\ ~ret.raised /\ ~prevRet.raised
        /\ ret.code = prevRet.code
        /\ ret.index # prevRet.index
        /\ SnapshotText(ret.pre) = SnapshotText(prevRet.pre)) =>
           /\ ret.result.cache_key # prevRet.result.cache_key
           /\ ~ret.hit
    /\ \A j, k \in 1..Len(r_ret.trace) :
           (/\ r_ret.trace[j].kind = "exec" /\ r_ret.trace[k].kind = "exec"
            /\ r_ret.trace[j].code = r_ret.trace[k].code
            /\ r_ret.trace[j].index # r_ret.trace[k].index
            /\ SnapshotText(r_ret.trace[j].pre_variables)
                   = SnapshotText(r_ret.trace[k].pre_variables)) =>
               /\ r_ret.trace[j].key # r_ret.trace[k].key
               /\ r_ret.trace[k].result_key[2] = r_ret.trace[k].index

\* the renderer's part of C17 alone
R_KeyIncludesPosition ==
    \A j, k \in 1..Len(r_ret.trace) :
        (/\ r_ret.trace[j].kind = "exec" /\ r_ret.trace[k].kind = "exec"
         /\ r_ret.trace[j].code = r_ret.trace[k].code
         /\ r_ret.trace[j].index # r_ret.trace[k].index) =>
            /\ r_ret.trace[j].key # r_ret.trace[k].key
            /\ r_ret.trace[k].result_key[2] = r_ret.trace[k].index

\* C18: processing a display block evaluates nothing and leaves the
\* environment as it was, its key has no part taken from the environment,
\* and when the cache holds the presentation of this text at this position
\* the block is served that presentation, whatever the environment is.
C18_DisplayIgnoresEnvironment ==
    (r_ret.op = "render" /\ ~r_ret.shortcut /\ ~r_ret.raised) =>
        \A k \in 1..Len(NonEmptyBlocks(r_ret.doc)) :
            NonEmptyBlocks(r_ret.doc)[k].kind = "display" =>
                LET t == r_ret.trace[k]
                IN  /\ ~t.evaluated
                    /\ t.post_variables = t.pre_variables
                    /\ t.key[4] = <<>>
                    /\ \A i \in 1..Len(t.cache_before) :
                           (/\ t.cache_before[i].key[1] = "display"
                            /\ t.cache_before[i].key[2] = t.index
                            /\ t.cache_before[i].key[3] = t.code) =>
                               /\ t.hit
                               /\ t.html = t.cache_before[i].value.html
                               /\ t.cache_after = t.cache_before

\* a display block cached under an empty environment was served from the
\* cache after a block of another document had bound x
C18_Witness ==
    /\ r_ret.op = "render" /\ ~r_ret.shortcut /\ renders = 3
    /\ r_ret.doc = <<DisplayBlock("a = 1  # note"), DisplayBlock("y = x + 1")>>
    /\ Len(r_ret.trace) = 2
    /\ r_ret.trace[1].hit /\ r_ret.trace[2].hit
    /\ r_ret.trace[2].pre_variables["x"] # Unbound
    /\ r_variables["y"] = Unbound

\* the answers a block registers: one per line that contains an input call,
\* in textual order, the annotation's text or the empty text
RegisteredAnswers(code) ==
    LET lines == SelectSeq(Lines(code), HasInputCall)
    IN  [i \in 1..Len(lines) |->
            IF HasInputComment(lines[i]) THEN InputComment(lines[i]) ELSE EmptyStr]

\* the executor's part of C19: the k-th input call of a run receives the k-th registered answer, as
\* a str; a run with more input calls than registered answers fails with
\* success = False (an IndexError) and binds nothing.
C19_AnswersInLineOrderNeverReused ==
    (ret.op = "execute" /\ ~ret.hit /\ ret.code \in InputCodes) =>
        LET answers == RegisteredAnswers(ret.code)
            targets == InputCalls(ret.code)
        IN  /\ Len(targets) <= Len(answers) =>
                   /\ ret.result.success
                   /\ \A k \in 1..Len(targets) :
                          /\ ret.post[targets[k]] = answers[k]
                          /\ ret.post[targets[k]][1] = "str"
            /\ Len(targets) > Len(answers) =>
                   /\ ~ret.result.success
                   /\ ret.result.error = "IndexError"
                   /\ ret.post = ret.pre
            /\ ret.post["input"] = Unbound

\* C19 for the blocks of a rendered text
R_AnswersInLineOrderNeverReused ==
    (r_ret.op = "render" /\ ~r_ret.raised) =>
        \A i \in 1..Len(r_ret.trace) :
            LET e == r_ret.trace[i]
                answers == RegisteredAnswers(e.code)
                targets == InputCalls(e.code)
            IN  (e.kind = "exec" /\ ~e.hit /\ e.code \in InputCodes) =>
                    /\ Len(targets) <= Len(answers) =>
                           \A k \in 1..Len(targets) :
                               e.post_variables[targets[k]] = answers[k]
                    /\ Len(targets) > Len(answers) =>
                           e.post_variables = e.pre_variables

\* C19: mock input answers are registered one per source line containing an
\* input call, in textual line order; the k-th input call made at run time
\* receives the k-th registered answer, and a run that makes more input calls
\* than there are registered answers fails instead of reusing an answer.
C19_MockInputAnswers ==
    C19_AnswersInLineOrderNeverReused /\ R_AnswersInLineOrderNeverReused

\* two annotated lines bound x and y to their answers, then a loop that
\* calls input twice with one registered answer failed
C19_Witness ==
    /\ r_ret.op = "render" /\ r_ret.misses = 2
    /\ r_ret.doc[1].code = "x = input()\ny = input()  # input: 2"
    /\ prevRet.op = "execute" /\ ~prevRet.hit
    /\ prevRet.code = "x = input()  # input: 1\ny = input()  # input: 2"
    /\ prevRet.post["x"] = StrV(1) /\ prevRet.post["y"] = StrV(2)
    /\ ret.op = "execute" /\ ~ret.hit
    /\ ret.code = "for i in range(2): y = input()  # input: 2"
    /\ ~ret.result.success
    /\ ret.result.error = "IndexError"
    /\ ret.post = ret.pre

\* C20: after execute_code ends by any path (cache hit, success, evaluation
\* error, an exception that leaves the call) sys.stdout and sys.stderr are
\* the stream objects they were when it was called; likewise after a render.
C20_StreamsRestored ==
    /\ ret.op = "execute" => ret.post_streams = ret.pre_streams
    /\ r_ret.op = "render" => r_ret.post_streams = r_ret.pre_streams

\* under streams the host installed: a cache hit, after a block that
\* replaced sys.stdout, and a render in which a block raised an error
C20_Witness ==
    /\ ret.op = "execute" /\ ret.hit
    /\ ret.code = "__import__('sys').stdout = None"
    /\ ret.pre_streams = Streams("host", "host")
    /\ prevRet.op = "execute" /\ ~prevRet.hit
    /\ prevRet.pre_streams = Streams("host", "host")
    /\ r_ret.op = "render" /\ r_ret.misses = 2
    /\ r_ret.pre_streams = Streams("host", "host")
    /\ sys_streams = Streams("host", "host")

\* position p of blocks has no recorded hash, or another one
Differs(blocks, history, p) ==
    \/ p > Len(history)
    \/ history[p] = NoBlock
    \/ history[p].code_hash # GetBlockCodeHash(blocks[p])

C26_NoChangeBeforeResumePoint ==
    (h_ret.op = "find_first_changed_block" /\ h_ret.found >= 0) =>
        \A p \in 1..h_ret.found : ~Differs(h_ret.blocks, h_ret.pre_history, p)

\* C27: once update_block_history(i, text_i) was the last update of every
\* position i of a document D, find_first_changed_block(D) returns -1.
C27_HistoryRoundTrip ==
    (/\ h_ret.op = "find_first_changed_block"
     /\ \A p \in 1..Len(h_ret.blocks) : ~Differs(h_ret.blocks, h_ret.pre_history, p)) =>
        h_ret.found = -1

\* C22: for the same block text, two environments that differ in the value
\* of any binding (one whose str() raises included) yield different keys, and
\* a cached result is never reused under an environment that differs from
\* the one it was computed in.
C22_KeyReflectsEnvironment ==
    /\ (SameBlockTwice /\ ret.pre # prevRet.pre) =>
           GetCodeHash(ret.code, GetVariableSnapshot(ret.pre))
               # GetCodeHash(prevRet.code, GetVariableSnapshot(prevRet.pre))
    /\ (SameBlockTwice /\ calls = 2 /\ ret.hit) => ret.pre = prevRet.pre

\* C23: for every block text that contains an input call the mock parser
\* registers at least one answer, the mock provider is installed and the
\* RuntimeError 'input() function found without mock value' is never
\* raised; for text with no input call the provider is not installed.
C23_ValidationErrorUnreachable ==
    (ret.op = "execute" /\ ~ret.hit /\ ~ret.key_given) =>
        /\ ~(ret.result.error = "RuntimeError")
        /\ CodeHasInputCall(ret.code) =>
               /\ ret.input_installed
               /\ ret.result.error \notin {"EOFError", "TypeError"}
        /\ ~CodeHasInputCall(ret.code) => ~ret.input_installed

\* a block whose only input call has no annotation ran with the provider
\* installed and got the empty text, and a block without input call ran
\* without the provider
C23_Witness ==
    /\ ret.op = "execute" /\ ~ret.hit
    /\ ret.code = "y = input()"
    /\ ret.input_installed
    /\ ret.result.success
    /\ ret.post["y"] = EmptyStr
    /\ prevRet.op = "execute" /\ ~prevRet.hit
    /\ prevRet.code = "input = 3"
    /\ ~prevRet.input_installed

\* the keys of cache1 that cache0 does not have
NewKeys(cache0, cache1) ==
    {cache1[i].key : i \in 1..Len(cache1)} \ {cache0[i].key : i \in 1..Len(cache0)}

\* the executor's part of C24, for the last call of execute_code
E_FailureKeepsEnvironment ==
    /\ (ret.op = "execute" /\ ret.raised) => ret.post = ret.pre
    /\ (ret.op = "execute" /\ ~ret.hit /\ ~ret.raised /\ ~ret.result.success) =>
        /\ ret.post = ret.pre
        /\ ret.result.variables = ret.pre
        /\ variables = ret.pre
        /\ NewKeys(ret.pre_cache, code_cache) = {ret.result.cache_key}
        /\ DictGet(code_cache, ret.result.cache_key) = ret.result
        /\ execution_stats.cache_misses = ret.pre_stats.cache_misses + 1
        /\ execution_stats.cache_hits = ret.pre_stats.cache_hits
        /\ execution_stats.total_executions = ret.pre_stats.total_executions + 1

\* the renderer's part of C24, for every block of the last render
R_FailureKeepsEnvironment ==
    (r_ret.op = "render" /\ ~r_ret.raised) =>
        \A i \in 1..Len(r_ret.trace) :
            LET e == r_ret.trace[i]
            IN  (/\ e.kind = "exec" /\ ~e.hit
                 /\ ~DictGet(e.cache_after, e.key).success) =>
                    /\ e.post_variables = e.pre_variables
                    /\ DictGet(e.cache_after, e.key).variables = e.pre_variables
                    /\ NewKeys(e.cache_before, e.cache_after) = {e.key}

\* C24: a failed evaluation leaves the environment's bindings exactly as
\* they were before the call: names the block assigned before the failure
\* point are not merged, the recorded post-state equals the pre-call
\* environment, and only the cache (one new entry) and the statistics (one
\* more miss) change.
C24_FailureKeepsEnvironment ==
    E_FailureKeepsEnvironment /\ R_FailureKeepsEnvironment

\* a block that bound y and printed before dividing by zero, run where y was
\* unbound, and a render whose four blocks include three that fail
C24_Witness ==
    /\ ret.op = "execute" /\ ~ret.hit /\ ~ret.result.success
    /\ ret.code = "y = 0; print(1); 1/0"
    /\ ret.pre["y"] = Unbound /\ variables["y"] = Unbound
    /\ Len(ret.result.output) > 0
    /\ Len(ret.pre_cache) = MaxCacheSize
    /\ r_ret.op = "render" /\ Len(r_ret.trace) = 4 /\ r_ret.misses = 4
    /\ r_variables["y"] = Unbound

\* the render of a document by an engine that never caches: every block is
\* evaluated, starting from an empty cache and no remembered document hash
UncachedRender(doc, vars0) ==
    RenderBlocks(doc, 1, [variables |-> vars0, code_cache |-> <<>>,
                          elements |-> <<>>, index |-> 0, raised |-> FALSE,
                          hits |-> 0, misses |-> 0, display_inserts |-> 0,
                          trace |-> <<>>, streams |-> Streams("tty", "tty")])

\* every bound value has a str()
AllStringify(e) == \A n \in AllNames : e[n] = Unbound \/ ~StrRaises(e[n])

\* C25: for deterministic blocks whose bound values all stringify, serving
\* a block from the cache is equivalent to evaluating it: the environment,
\* the returned success flag and stdout, and the document elements of each
\* block (those added through helpers such as pymd.h1 included) are those
\* of an engine that never caches.
C25_CacheTransparency ==
    /\ (r_ret.op = "render" /\ ~r_ret.raised /\ AllStringify(r_ret.pre_variables)) =>
           LET uncached == UncachedRender(r_ret.doc, r_ret.pre_variables)
           IN  /\ r_ret.html = GenerateHtml(uncached.elements)
               /\ r_variables = uncached.variables
    /\ (ret.op = "execute" /\ ~ret.raised /\ AllStringify(ret.pre)) =>
           LET uncached == ExecuteCode(ret.pre, <<>>, InitStats, ret.code, NoKey,
                                       ret.custom, 1)
           IN  /\ ret.post = uncached.variables
               /\ ret.result.success = uncached.result.success
               /\ ret.result.output = uncached.result.output

\* the names bound in an environment
BoundNames(e) == {n \in AllNames : e[n] # Unbound}

\* C28: the set of names bound in the environment never shrinks under
\* Execute (miss, hit or failure), a render, clear_cache or save_checkpoint:
\* a name stays bound when a block deletes it or when the block that
\* defined it is no longer in the document; only restore_checkpoint can
\* remove a name.
C28_NamesNeverShrink ==
    /\ ret.op = "execute" => BoundNames(ret.pre) \subseteq BoundNames(ret.post)
    /\ h_ret.op \in {"save", "clear"} =>
           BoundNames(h_ret.pre) \subseteq BoundNames(h_ret.post)
    /\ r_ret.op = "render" =>
           /\ BoundNames(r_ret.pre_variables) \subseteq BoundNames(r_variables)
           /\ \A i \in 1..Len(r_ret.trace) :
                  BoundNames(r_ret.trace[i].pre_variables)
                      \subseteq BoundNames(r_ret.trace[i].post_variables)

\* 'del x' ran with success where x was bound and x is still bound, and a
\* render of a document without the blocks that bound and deleted x left x
\* bound
C28_Witness ==
    /\ ret.op = "execute" /\ ~ret.hit /\ ret.result.success
    /\ ret.code = "del x"
    /\ ret.post["x"] = IntV(5)
    /\ r_ret.op = "render" /\ r_ret.doc = <<ExecBlock("print(1)")>>
    /\ r_prev.op = "render" /\ r_prev.doc = <<ExecBlock("x = 5"), ExecBlock("del x")>>
    /\ r_prev.misses = 2
    /\ r_variables["x"] = IntV(5)

\* a restore of a checkpoint saved before x was bound removed x
RestoreRemovesName ==
    /\ h_ret.op = "restore" /\ h_ret.returned = "True"
    /\ h_ret.pre["x"] = IntV(5) /\ h_ret.post["x"] = Unbound

\* C29: clear_cache also discards every saved checkpoint: after it,
\* restore_checkpoint(i) returns False and leaves the environment unchanged
\* for every index i, until a new save_checkpoint(i) is made.
C29_ClearDiscardsCheckpoints ==
    (h_ret.op = "restore" /\ ~h_ret.saved.present) =>
        /\ h_ret.returned = "False"
        /\ h_ret.post = h_ret.pre
        /\ h_ret.post_values = h_ret.pre_values
        /\ \A i \in BlockIndexes :
               ~saved[i].present => ~variables_checkpoints[i].present

\* a restore of an index whose checkpoint, saved with names bound, was
\* discarded by a clear, while the environment was not empty
C29_Witness ==
    /\ h_ret.op = "restore" /\ ~h_ret.saved.present
    /\ h_ret.saved.variables # EmptyDict
    /\ h_ret.returned = "False"
    /\ Keys(h_ret.pre) # {}
    /\ h_ret.post = h_ret.pre

\* C30: in every state reachable by Execute and clear_cache calls,
\* total_executions = cache_hits + cache_misses; every Execute call
\* increases exactly one of cache_hits and cache_misses by one; and the
\* counters decrease only when clear_cache resets them all to zero.
C30_CountersAddUp ==
    /\ execution_stats.total_executions
           = execution_stats.cache_hits + execution_stats.cache_misses
    /\ ret.op = "execute" =>
           \/ /\ ret.post_stats.cache_hits = ret.pre_stats.cache_hits + 1
              /\ ret.post_stats.cache_misses = ret.pre_stats.cache_misses
           \/ /\ ret.post_stats.cache_hits = ret.pre_stats.cache_hits
              /\ ret.post_stats.cache_misses = ret.pre_stats.cache_misses + 1
    /\ h_ret.op = "clear" =>
           /\ h_ret.post_stats.cache_hits = 0
           /\ h_ret.post_stats.cache_misses = 0
           /\ h_ret.post_stats.total_executions = 0

\* the renderer keeps its own helpers out of its variables
R_NoHelperLeaks ==
    \A n \in Keys(r_variables) :
        ~StartsWithDunder(n) /\ n \notin {"input", "pymd", "plt", "pd"}

====
